---- MODULE Spec2Model ----
(***************************************************************************)
(* Verification model of plt-wallet-web: local credential custody          *)
(* (lib/wallet.ts), the send form (SendTokensForm.tsx), the single wallet  *)
(* App shell (App.tsx, tabbed variant), the multi-wallet App (its list of  *)
(* stored wallets and its session), the hooks usePlt and useBalances, and  *)
(* lib/chain.ts.                                                           *)
(*                                                                         *)
(* Text is modelled as a sequence of character codes, binary data as a     *)
(* sequence of bytes (0..255).  An optional value is a sequence of length  *)
(* zero (null / undefined) or one.                                         *)
(***************************************************************************)
EXTENDS Integers, Sequences, FiniteSets, TLC

VARIABLES
    \* ---- lib/wallet.ts exercised directly (specification SpecCrypto) ----
    rngDraws,       \* number of crypto.getRandomValues calls made so far
    encCalls,       \* encryptSecrets calls suspended at `await deriveKey`
    encrypted,      \* records returned by encryptSecrets, with their inputs
    decrypted,      \* outcome of the last decryptSecrets call (optional)
    \* ---- SendTokensForm.tsx (specification SpecForm) ----
    destination, amountInput, memo,     \* the three input fields
    error,                              \* error shown by the form (optional)
    isSending, resultHash, showConfirm,
    feeAmount,                          \* fee shown, in base units (feeBase)
    client,                             \* prop: a signing client is passed
    balanceBaseAmount,                  \* prop: balance held by the App
    inFlight,       \* the handleSend call of the mounted form suspended at an
                    \* await (optional), with the arguments it passed to sendTokens
    orphaned,       \* the handleSend calls of unmounted forms still pending: how many
                    \* await client.sendTokens and how many await onRefreshBalance
    \* App
    localStorage,   \* the value under STORAGE_KEY (optional text)
    queryClient,    \* a StargateClient is held (isConnected)
    connecting,     \* number of handleConnect calls awaiting the network
    signingClient,  \* the address the signing client held signs for (optional)
    activeWallet,   \* optional [address, type]
    storedWallet,   \* optional EncryptedWalletShape
    balance, errorMessage, unlockError, connectionError,
    isImporting, isUnlocking, activeTab,
    importTask,     \* the handleImportWallet call in flight (optional)
    unlockTask,     \* the handleUnlockWallet call in flight (optional)
    lastPersist,    \* history: the record the storage holds, the password it was
                    \* encrypted with, and whether the page was reloaded since
    disconnected,   \* history: handleDisconnect has completed and the user has
                    \* not started an import or an unlock since
    queryChain,     \* the chain id the query client held reported, and the one
                    \* that was expected of it (optional)
    signingChain,   \* the same for the signing client held (optional)
    \* ---- App.tsx, multi-wallet variant: the list of stored wallets ----
    storedWallets,          \* the records listed, in order
    walletBeingUnlocked,    \* the record selected for unlock (optional)
    persisted,      \* history: the last record handed to persistWallet (optional)
    \* ---- hooks/usePlt.ts ----
    pltClient,      \* the StargateClient held (optional client number)
    pltChainId,     \* optional chain id
    pltHeight, pltIsConnected,
    pltError,       \* optional message
    pltCalls,       \* the connect() calls awaiting the network
    pltMade,        \* number of clients StargateClient.connect has returned
    pltClosed,      \* the clients disconnect() was called on
    \* ---- hooks/useBalances.ts ----
    balClient,      \* prop: a client is passed to the hook
    loading, balances,
    balError,       \* optional message
    fetches,        \* the fetchBalances calls awaiting client.getAllBalances:
                    \* the trimmed address each one queried, oldest first
    getAllCalls,    \* number of client.getAllBalances calls made so far
    lastAddress,    \* localStorage item 'plt:lastAddress' (optional text)
    \* ---- lib/chain.ts exercised directly (specification SpecChain) ----
    formatCall,     \* the arguments of the last formatAmount call (optional)
    formatted,      \* what that call returned (text)
    \* ---- App.tsx, multi-wallet variant: connection, activation, balance ----
    session,        \* the state of the App component, one field per useState
    sessionCalls,   \* the handler calls suspended at an await, each with the
                    \* values its closure was created with
    sessionClients, \* every client the App obtained, in order: its kind, the
                    \* address and chain id it was connected with, its signer,
                    \* and whether disconnect() was called on it
    sessionStarted  \* number of handlers the user has invoked so far

cryptoVars == <<rngDraws, encCalls, encrypted, decrypted>>

formVars == <<destination, amountInput, memo, error, isSending, resultHash, showConfirm,
              feeAmount, client, balanceBaseAmount, inFlight, orphaned>>

appVars == <<localStorage, queryClient, connecting, signingClient, activeWallet, storedWallet,
             balance, errorMessage, unlockError, connectionError, isImporting, isUnlocking,
             activeTab, importTask, unlockTask, lastPersist, disconnected,
             queryChain, signingChain>>

listVars == <<storedWallets, walletBeingUnlocked, persisted>>

pltVars == <<pltClient, pltChainId, pltHeight, pltIsConnected, pltError, pltCalls, pltMade,
             pltClosed>>

balVars == <<balClient, loading, balances, balError, fetches, getAllCalls, lastAddress>>

chainVars == <<formatCall, formatted>>

sessionVars == <<session, sessionCalls, sessionClients, sessionStarted>>

hookVars == <<listVars, pltVars, balVars, chainVars, sessionVars>>

vars == <<cryptoVars, formVars, appVars, hookVars>>

(***************************************************************************)
(* Generic helpers                                                         *)
(***************************************************************************)
None == <<>>
Some(x) == <<x>>
IsSome(o) == Len(o) = 1
Get(o) == o[1]

RECURSIVE SumSeq(_)
SumSeq(s) ==
    IF Len(s) = 0 THEN 0
    ELSE IF Len(s) = 1 THEN s[1]
    ELSE SumSeq(SubSeq(s, 1, Len(s) \div 2)) + SumSeq(SubSeq(s, (Len(s) \div 2) + 1, Len(s)))

IsPrefix(p, s) == Len(p) <= Len(s) /\ SubSeq(s, 1, Len(p)) = p

Contains(hay, needle) ==
    \E i \in 1..(Len(hay) - Len(needle) + 1) : SubSeq(hay, i, i + Len(needle) - 1) = needle

Range(s) == {s[i] : i \in 1..Len(s)}

(***************************************************************************)
(* Platform text codecs used by lib/wallet.ts                              *)
(***************************************************************************)
\* TextEncoder.encode: UTF-8, code points below 0x800
RECURSIVE Utf8Encode(_)
Utf8Encode(str) ==
    IF Len(str) = 0 THEN <<>>
    ELSE IF Len(str) = 1 THEN
        IF str[1] < 128 THEN <<str[1]>> ELSE <<192 + (str[1] \div 64), 128 + (str[1] % 64)>>
    ELSE Utf8Encode(SubSeq(str, 1, Len(str) \div 2))
            \o Utf8Encode(SubSeq(str, (Len(str) \div 2) + 1, Len(str)))

Utf8Lead(b) == b >= 192 /\ b < 224
Utf8Cont(b) == b >= 128 /\ b < 192

\* TextDecoder.decode: non-fatal, a malformed byte becomes U+FFFD
RECURSIVE Utf8Decode(_)
Utf8Decode(bytes) ==
    IF Len(bytes) = 0 THEN <<>>
    ELSE IF Len(bytes) = 1 THEN (IF bytes[1] < 128 THEN <<bytes[1]>> ELSE <<65533>>)
    ELSE IF Len(bytes) = 2 /\ Utf8Lead(bytes[1]) /\ Utf8Cont(bytes[2])
         THEN <<(bytes[1] - 192) * 64 + (bytes[2] - 128)>>
    ELSE LET h == Len(bytes) \div 2
             k == IF Utf8Lead(bytes[h]) /\ Utf8Cont(bytes[h + 1]) THEN h + 1 ELSE h
         IN Utf8Decode(SubSeq(bytes, 1, k)) \o Utf8Decode(SubSeq(bytes, k + 1, Len(bytes)))

B64Alphabet ==
    <<65, 66, 67, 68, 69, 70, 71, 72, 73, 74, 75, 76, 77, 78, 79, 80, 81, 82, 83, 84, 85, 86,
      87, 88, 89, 90, 97, 98, 99, 100, 101, 102, 103, 104, 105, 106, 107, 108, 109, 110, 111,
      112, 113, 114, 115, 116, 117, 118, 119, 120, 121, 122, 48, 49, 50, 51, 52, 53, 54, 55,
      56, 57, 43, 47>>

B64Pad == 61

B64Char(v) == B64Alphabet[v + 1]

B64Val(c) ==
    IF c \in 65..90 THEN c - 65
    ELSE IF c \in 97..122 THEN c - 71
    ELSE IF c \in 48..57 THEN c + 4
    ELSE IF c = 43 THEN 62 ELSE 63

\* btoa(String.fromCharCode(...bytes))
RECURSIVE bufferToBase64(_)
bufferToBase64(buffer) ==
    IF Len(buffer) = 0 THEN <<>>
    ELSE IF Len(buffer) = 1 THEN
        <<B64Char(buffer[1] \div 4), B64Char((buffer[1] % 4) * 16), B64Pad, B64Pad>>
    ELSE IF Len(buffer) = 2 THEN
        <<B64Char(buffer[1] \div 4),
          B64Char((buffer[1] % 4) * 16 + (buffer[2] \div 16)),
          B64Char((buffer[2] % 16) * 4), B64Pad>>
    ELSE IF Len(buffer) = 3 THEN
        <<B64Char(buffer[1] \div 4),
          B64Char((buffer[1] % 4) * 16 + (buffer[2] \div 16)),
          B64Char((buffer[2] % 16) * 4 + (buffer[3] \div 64)),
          B64Char(buffer[3] % 64)>>
    ELSE LET k == 3 * (((Len(buffer) + 2) \div 3) \div 2)
         IN bufferToBase64(SubSeq(buffer, 1, k)) \o bufferToBase64(SubSeq(buffer, k + 1, Len(buffer)))

B64Chars == Range(B64Alphabet)

\* the inputs atob accepts here: padded base64 text
B64Valid(value) ==
    /\ Len(value) % 4 = 0
    /\ \A i \in 1..Len(value) :
          \/ value[i] \in B64Chars
          \/ value[i] = B64Pad /\ i > Len(value) - 2 /\ (i = Len(value) \/ value[i + 1] = B64Pad)

\* atob(value) copied into a Uint8Array
RECURSIVE base64ToBuffer(_)
base64ToBuffer(value) ==
    IF Len(value) = 0 THEN <<>>
    ELSE IF Len(value) = 4 THEN
        LET a == B64Val(value[1])
            b == B64Val(value[2])
        IN IF value[3] = B64Pad THEN <<a * 4 + (b \div 16)>>
           ELSE LET c == B64Val(value[3]) IN
                IF value[4] = B64Pad
                THEN <<a * 4 + (b \div 16), (b % 16) * 16 + (c \div 4)>>
                ELSE <<a * 4 + (b \div 16), (b % 16) * 16 + (c \div 4),
                       (c % 4) * 64 + B64Val(value[4])>>
    ELSE LET k == 4 * ((Len(value) \div 4) \div 2)
         IN base64ToBuffer(SubSeq(value, 1, k)) \o base64ToBuffer(SubSeq(value, k + 1, Len(value)))

(***************************************************************************)
(* JSON text of a StoredSecrets object                                     *)
(***************************************************************************)
Undef == <<-1>>          \* an absent optional string field

KeyMnemonic == <<109, 110, 101, 109, 111, 110, 105, 99>>
KeyPrivateKeyHex == <<112, 114, 105, 118, 97, 116, 101, 75, 101, 121, 72, 101, 120>>

QUOTE == 34
BACKSLASH == 92

RECURSIVE JsonEscape(_)
JsonEscape(str) ==
    IF Len(str) = 0 THEN <<>>
    ELSE IF Len(str) = 1 THEN
        IF str[1] \in {QUOTE, BACKSLASH} THEN <<BACKSLASH, str[1]>> ELSE <<str[1]>>
    ELSE JsonEscape(SubSeq(str, 1, Len(str) \div 2))
            \o JsonEscape(SubSeq(str, (Len(str) \div 2) + 1, Len(str)))

JsonMember(key, str) == <<QUOTE>> \o key \o <<QUOTE, 58, QUOTE>> \o JsonEscape(str) \o <<QUOTE>>

\* JSON.stringify(secrets): undefined fields are dropped
JsonStringifySecrets(secrets) ==
    LET m == IF secrets.mnemonic = Undef THEN <<>> ELSE JsonMember(KeyMnemonic, secrets.mnemonic)
        k == IF secrets.privateKeyHex = Undef THEN <<>>
             ELSE JsonMember(KeyPrivateKeyHex, secrets.privateKeyHex)
        sep == IF Len(m) > 0 /\ Len(k) > 0 THEN <<44>> ELSE <<>>
    IN <<123>> \o m \o sep \o k \o <<125>>

\* text[p] is a backslash that escapes text[p + 1], in a string body starting at
\* text[i]: it ends a run of backslashes of odd length
JsonEscapingAt(text, i, p) ==
    /\ text[p] = BACKSLASH
    /\ Cardinality({q \in i..p : \A r \in q..p : text[r] = BACKSLASH}) % 2 = 1

\* the first quote in text[lo..hi] that is not escaped, in a string body
\* starting at text[i]; 0 when there is none
RECURSIVE JsonClosingQuote(_, _, _, _)
JsonClosingQuote(text, i, lo, hi) ==
    IF lo > hi THEN 0
    ELSE IF lo = hi
    THEN (IF text[lo] = QUOTE /\ ~(lo > i /\ JsonEscapingAt(text, i, lo - 1)) THEN lo ELSE 0)
    ELSE LET mid == (lo + hi) \div 2
             left == JsonClosingQuote(text, i, lo, mid)
         IN IF left # 0 THEN left ELSE JsonClosingQuote(text, i, mid + 1, hi)

\* reads a JSON string body starting at text[i]; stops after the closing quote
JsonReadString(text, i) ==
    LET end == JsonClosingQuote(text, i, i, Len(text))
    IN IF end = 0 THEN [ok |-> FALSE, val |-> <<>>, next |-> i]
       ELSE LET kept == {p \in i..(end - 1) : ~JsonEscapingAt(text, i, p)}
                wellFormed ==
                    \A p \in i..(end - 1) :
                        /\ text[p] >= 32
                        /\ JsonEscapingAt(text, i, p) => text[p + 1] \in {QUOTE, BACKSLASH, 47}
            IN [ok |-> wellFormed,
                val |-> IF kept = i..(end - 1) THEN SubSeq(text, i, end - 1)
                        ELSE [j \in 1..Cardinality(kept) |->
                                text[CHOOSE p \in kept : Cardinality({q \in kept : q <= p}) = j]],
                next |-> end + 1]

\* reads `"key":"value"` members from text[i] up to the closing brace
RECURSIVE JsonReadMembers(_, _, _)
JsonReadMembers(text, i, members) ==
    IF i > Len(text) \/ text[i] # QUOTE THEN [ok |-> FALSE, members |-> members]
    ELSE LET key == JsonReadString(text, i + 1) IN
         IF ~key.ok \/ key.next + 1 > Len(text)
            \/ text[key.next] # 58 \/ text[key.next + 1] # QUOTE
         THEN [ok |-> FALSE, members |-> members]
         ELSE LET val == JsonReadString(text, key.next + 2)
                  nxt == Append(members, [key |-> key.val, val |-> val.val])
              IN IF ~val.ok \/ val.next > Len(text) THEN [ok |-> FALSE, members |-> members]
                 ELSE IF text[val.next] = 125
                      THEN [ok |-> val.next = Len(text), members |-> nxt]
                 ELSE IF text[val.next] = 44 THEN JsonReadMembers(text, val.next + 1, nxt)
                 ELSE [ok |-> FALSE, members |-> members]

\* a parser that accepts every text as an empty object
JsonParseObject_lenient(text) == [ok |-> Len(text) >= 0, members |-> <<>>]

\* JSON.parse of an object whose members are strings
JsonParseObject(text) ==
    IF Len(text) < 2 \/ text[1] # 123 THEN [ok |-> FALSE, members |-> <<>>]
    ELSE IF text = <<123, 125>> THEN [ok |-> TRUE, members |-> <<>>]
    ELSE JsonReadMembers(text, 2, <<>>)

\* obj[key]: the last member of that name, undefined when there is none
JsonField(members, key) ==
    LET hits == {j \in 1..Len(members) : members[j].key = key}
    IN IF hits = {} THEN Undef
       ELSE members[CHOOSE j \in hits : \A k \in hits : k <= j].val

NoSecrets == [mnemonic |-> Undef, privateKeyHex |-> Undef]

\* JSON.parse(json) as StoredSecrets
JsonParseSecrets(text) ==
    LET parsed == JsonParseObject(text)
    IN [ok |-> parsed.ok,
        obj |-> [mnemonic |-> JsonField(parsed.members, KeyMnemonic),
                 privateKeyHex |-> JsonField(parsed.members, KeyPrivateKeyHex)]]

(***************************************************************************)
(* config.ts and lib/wallet.ts: credential custody                         *)
(***************************************************************************)
ADDRESS_PREFIX == <<99, 111, 115, 109, 111, 115>>     \* 'cosmos'

IV_LENGTH == 12
SALT_LENGTH == 16

WalletSource == {"mnemonic", "privateKey"}

\* crypto.getRandomValues(new Uint8Array(n)).  The generator is idealised as
\* a source of fresh values: the draw numbered `draw` returns the byte string
\* that spells `draw`, so two draws never return the same bytes.
getRandomValues(n, draw) ==
    [i \in 1..n |-> IF i = n THEN draw % 256
                    ELSE IF i = n - 1 THEN (draw \div 256) % 256 ELSE 0]

\* a key derived from the salt alone
deriveKey_noPassword(password, salt) == [pw |-> <<>>, salt |-> salt]

\* PBKDF2(SHA-256, 250000 iterations) -> AES-GCM key, idealised: the key is
\* determined by, and determines, the password bytes and the salt.
deriveKey(password, salt) == [pw |-> Utf8Encode(password), salt |-> salt]

\* AES-GCM idealised as an authenticated cipher: the ciphertext opens only
\* under the key and iv it was sealed with.  The authentication part binds
\* key and iv; the body is the data shifted by a non-zero key stream byte.
GcmAuth(key, iv) ==
    <<Len(key.pw)>> \o key.pw \o <<Len(key.salt)>> \o key.salt \o <<Len(iv)>> \o iv

GcmStream(key, iv) == 1 + ((SumSeq(key.pw) + SumSeq(key.salt) + SumSeq(iv)) % 255)

\* a cipher that leaves the data as it is
SubtleEncrypt_plain(key, iv, data) == GcmAuth(key, iv) \o data

SubtleEncrypt(key, iv, data) ==
    GcmAuth(key, iv) \o [i \in 1..Len(data) |-> (data[i] + GcmStream(key, iv)) % 256]

SubtleDecrypt(key, iv, ciphertext) ==
    LET auth == GcmAuth(key, iv)
        body == SubSeq(ciphertext, Len(auth) + 1, Len(ciphertext))
    IN IF IsPrefix(auth, ciphertext)
       THEN [ok |-> TRUE,
             data |-> [i \in 1..Len(body) |-> (body[i] + 256 - GcmStream(key, iv)) % 256]]
       ELSE [ok |-> FALSE, data |-> <<>>]

\* a module-level iv shared by every call
encryptSecretsIv_shared(draw) == getRandomValues(IV_LENGTH, 0)

\* the iv and the salt of the encryptSecrets call that starts at RNG draw `draw`
encryptSecretsIv(draw) == getRandomValues(IV_LENGTH, draw)

encryptSecretsSalt(draw) == getRandomValues(SALT_LENGTH, draw + 1)

encryptSecrets(secrets, password, type, address, draw) ==
    LET iv == encryptSecretsIv(draw)
        salt == encryptSecretsSalt(draw)
        key == deriveKey(password, salt)
        ciphertext == SubtleEncrypt(key, iv, Utf8Encode(JsonStringifySecrets(secrets)))
    IN [address |-> address,
        type |-> type,
        ciphertext |-> bufferToBase64(ciphertext),
        iv |-> bufferToBase64(iv),
        salt |-> bufferToBase64(salt)]

DecryptFailed == [ok |-> FALSE, secrets |-> NoSecrets]

\* derives the key from the iv instead of the salt
decryptSecrets_ivAsSalt(payload, password) ==
    LET iv == base64ToBuffer(payload.iv)
        plain == SubtleDecrypt(deriveKey(password, iv), iv, base64ToBuffer(payload.ciphertext))
        parsed == JsonParseSecrets(Utf8Decode(plain.data))
    IN IF plain.ok /\ parsed.ok THEN [ok |-> TRUE, secrets |-> parsed.obj] ELSE DecryptFailed

decryptSecrets(payload, password) ==
    IF ~(B64Valid(payload.salt) /\ B64Valid(payload.iv) /\ B64Valid(payload.ciphertext))
    THEN DecryptFailed
    ELSE LET salt == base64ToBuffer(payload.salt)
             iv == base64ToBuffer(payload.iv)
             ciphertext == base64ToBuffer(payload.ciphertext)
             key == deriveKey(password, salt)
             plain == SubtleDecrypt(key, iv, ciphertext)
             parsed == JsonParseSecrets(Utf8Decode(plain.data))
         IN IF plain.ok /\ parsed.ok THEN [ok |-> TRUE, secrets |-> parsed.obj]
            ELSE DecryptFailed

(***************************************************************************)
(* Inputs of the model                                                     *)
(***************************************************************************)
HexDigits == <<48, 49, 50, 51, 52, 53, 54, 55, 56, 57, 97, 98, 99, 100, 101, 102>>

Mnemonic1 == <<97, 98, 32, 99, 100>>                      \* 'ab cd'
Mnemonic2 == <<99, 100, 32, 97, 98>>                      \* 'cd ab'
PrivKey1 == [i \in 1..64 |-> HexDigits[(i % 16) + 1]]
OddText == <<34, 241, 92>>                                \* '"', n-tilde, '\'

Password1 == <<112, 119>>                                 \* 'pw'
Password2 == <<112, 241>>                                 \* 'p', n-tilde

SecretsOfMnemonic(m) == [mnemonic |-> m, privateKeyHex |-> Undef]
SecretsOfKey(k) == [mnemonic |-> Undef, privateKeyHex |-> k]

MaxEncryptCalls == 2

CryptoPasswords == {Password1, Password2}
AddressA == ADDRESS_PREFIX \o <<49, 97>>
AddressB == ADDRESS_PREFIX \o <<49, 98>>

\* the argument lists encryptSecrets is called with
CryptoInputs ==
    { [secrets |-> SecretsOfMnemonic(Mnemonic1), password |-> Password1,
       type |-> "mnemonic", address |-> AddressA],
      [secrets |-> SecretsOfMnemonic(OddText), password |-> Password2,
       type |-> "mnemonic", address |-> AddressB],
      [secrets |-> SecretsOfKey(<<48, 102>>), password |-> Password1,
       type |-> "privateKey", address |-> AddressB],
      [secrets |-> [mnemonic |-> Mnemonic2, privateKeyHex |-> <<92, 34>>], password |-> Password2,
       type |-> "privateKey", address |-> AddressA],
      [secrets |-> NoSecrets, password |-> Password2,
       type |-> "mnemonic", address |-> AddressA] }

(***************************************************************************)
(* SendTokensForm.tsx                                                      *)
(***************************************************************************)
DEFAULT_GAS_LIMIT == 200000
DISPLAY_DECIMALS == 6
GAS_PRICE_MILLI == 25        \* DEFAULT_GAS_PRICE = 0.025 base units per gas

WHITESPACE == {9, 10, 13, 32}

\* String.prototype.trim
Trim(str) ==
    IF \A i \in 1..Len(str) : str[i] \in WHITESPACE THEN <<>>
    ELSE LET first == CHOOSE i \in 1..Len(str) :
                          str[i] \notin WHITESPACE /\ \A j \in 1..(i - 1) : str[j] \in WHITESPACE
             last == CHOOSE i \in 1..Len(str) :
                          str[i] \notin WHITESPACE /\ \A j \in (i + 1)..Len(str) : str[j] \in WHITESPACE
         IN SubSeq(str, first, last)

AddressChars == (48..57) \cup (97..122)

\* ADDRESS_REGEX.test(address.trim()): ^cosmos1[0-9a-z]{38,58}$
isValidAddress(address) ==
    LET a == Trim(address)
        head == ADDRESS_PREFIX \o <<49>>
    IN /\ IsPrefix(head, a)
       /\ Len(a) - Len(head) >= 38
       /\ Len(a) - Len(head) <= 58
       /\ \A i \in (Len(head) + 1)..Len(a) : a[i] \in AddressChars

\* number of decimal places the model keeps of a parsed number
NUMBER_SCALE == 8

RECURSIVE Pow10(_)
Pow10(n) == IF n = 0 THEN 1 ELSE 10 * Pow10(n - 1)

RECURSIVE DigitsValue(_)
DigitsValue(digits) ==
    IF Len(digits) = 0 THEN 0
    ELSE 10 * DigitsValue(SubSeq(digits, 1, Len(digits) - 1)) + (digits[Len(digits)] - 48)

\* Number(text) for plain decimal literals: [finite, val], val in units of
\* 10^-NUMBER_SCALE; anything else is NaN.  Number('') is 0.
NumberOf(text) ==
    LET t == Trim(text)
        neg == Len(t) > 0 /\ t[1] = 45
        body == IF neg \/ (Len(t) > 0 /\ t[1] = 43) THEN Tail(t) ELSE t
        dots == {i \in 1..Len(body) : body[i] = 46}
        dot == IF dots = {} THEN Len(body) + 1 ELSE CHOOSE i \in dots : TRUE
        whole == SubSeq(body, 1, dot - 1)
        frac == SubSeq(body, dot + 1, Len(body))
        wellFormed == /\ Cardinality(dots) <= 1
                      /\ Len(whole) + Len(frac) > 0
                      /\ Len(frac) <= NUMBER_SCALE
                      /\ \A i \in 1..Len(body) : i # dot => body[i] \in 48..57
        magnitude == DigitsValue(whole) * Pow10(NUMBER_SCALE)
                        + DigitsValue(frac) * Pow10(NUMBER_SCALE - Len(frac))
    IN IF Len(t) = 0 THEN [finite |-> TRUE, val |-> 0]
       ELSE IF ~wellFormed THEN [finite |-> FALSE, val |-> 0]
       ELSE [finite |-> TRUE, val |-> IF neg THEN 0 - magnitude ELSE magnitude]

\* Math.round(amountNumber * 10 ** decimals): halves round up
AmountBase(number) ==
    LET unit == Pow10(NUMBER_SCALE - DISPLAY_DECIMALS)
    IN (2 * number.val + unit) \div (2 * unit)

\* Number(calculateFee(DEFAULT_GAS_LIMIT, gasPrice).amount[0].amount): the
\* product of gas limit and gas price, rounded up
FeeBase == (DEFAULT_GAS_LIMIT * GAS_PRICE_MILLI + 999) \div 1000

\* coins(amountBase, baseDenom) accepts only non-negative integers of a finite number
CoinsAccepts(number) == number.finite /\ AmountBase(number) >= 0

ValidDestination == ADDRESS_PREFIX \o <<49>> \o [i \in 1..38 |-> 97 + (i % 26)]

FormDestinations ==
    { <<>>,
      <<32>> \o ValidDestination \o <<32>>,
      ADDRESS_PREFIX \o <<49>> \o [i \in 1..38 |-> IF i = 5 THEN 65 ELSE 97] }

FormAmounts ==
    { <<>>,
      <<97, 98, 99>>,                                 \* 'abc'
      <<48, 46, 48, 48, 48, 48, 48, 49, 53>> }        \* '0.0000015'

FormMemos == {<<>>, <<32, 109>>}

FormBalances == {FeeBase + 1, FeeBase + 2}

MaxOrphaned == 1

\* CHAIN_ID of config.ts
CHAIN_ID == <<99, 111, 115, 109, 111, 115, 104, 117, 98, 45, 52>>    \* 'cosmoshub-4'

\* RPC_ENDPOINT of config.ts, 'https://rpc.cosmos.directory/cosmoshub'
RPC_ENDPOINT ==
    <<104, 116, 116, 112, 115, 58, 47, 47, 114, 112, 99, 46, 99, 111, 115, 109,
      111, 115, 46, 100, 105, 114, 101, 99, 116, 111, 114, 121, 47, 99, 111,
      115, 109, 111, 115, 104, 117, 98>>

\* the addresses of the wallets of a session
SessionAddresses == {"plt1a", "plt1b"}

EmptyBalances == [address \in SessionAddresses |-> None]

SessionInit ==
    [rpcUrl |-> RPC_ENDPOINT, expectedChainId |-> CHAIN_ID,
     queryClient |-> None, signingClient |-> None,
     activeWallet |-> None, wallets |-> <<>>,
     storedWallets |-> <<"plt1a">>, walletBeingUnlocked |-> None,
     isUnlocking |-> FALSE, isImporting |-> FALSE,
     isWalletActivationPending |-> FALSE,
     balance |-> 0, walletBalances |-> EmptyBalances,
     isRefreshingBalance |-> FALSE, generatedWallet |-> None]

\* no encryptSecrets call made yet; a form freshly mounted by the App
\* has no query client, no wallet and one record in its list of stored wallets
Init ==
    /\ rngDraws = 0
    /\ encCalls = {}
    /\ encrypted = {}
    /\ decrypted = None
    /\ destination = <<>>
    /\ amountInput = <<>>
    /\ memo = <<>>
    /\ error = None
    /\ isSending = FALSE
    /\ resultHash = None
    /\ showConfirm = FALSE
    /\ feeAmount = 0
    /\ client = TRUE
    /\ balanceBaseAmount = FeeBase + 2
    /\ inFlight = None
    /\ orphaned = [sendTokens |-> 0, refresh |-> 0]
    /\ localStorage = None
    /\ queryClient = FALSE
    /\ connecting = 0
    /\ signingClient = None
    /\ activeWallet = None
    /\ storedWallet = None
    /\ balance = 0
    /\ errorMessage = None
    /\ unlockError = None
    /\ connectionError = None
    /\ isImporting = FALSE
    /\ isUnlocking = FALSE
    /\ activeTab = "home"
    /\ importTask = None
    /\ unlockTask = None
    /\ lastPersist = None
    /\ disconnected = FALSE
    /\ queryChain = None
    /\ signingChain = None
    /\ storedWallets = <<>>
    /\ walletBeingUnlocked = None
    /\ persisted = None
    /\ pltClient = None
    /\ pltChainId = None
    /\ pltHeight = 0
    /\ pltIsConnected = FALSE
    /\ pltError = None
    /\ pltCalls = {}
    /\ pltMade = 0
    /\ pltClosed = {}
    /\ balClient = FALSE
    /\ loading = FALSE
    /\ balances = <<>>
    /\ balError = None
    /\ fetches = <<>>
    /\ getAllCalls = 0
    /\ lastAddress = None
    /\ formatCall = None
    /\ formatted = <<>>
    /\ session = SessionInit
    /\ sessionCalls = {}
    /\ sessionClients = <<>>
    /\ sessionStarted = 0

\* const available = Number(balanceBaseAmount)
available == balanceBaseAmount

\* onChange of the three inputs; none of them is ever disabled
setDestination ==
    \E d \in FormDestinations :
        /\ d # destination
        /\ destination' = d
        /\ UNCHANGED <<amountInput, memo, error, isSending, resultHash, showConfirm, feeAmount,
                       client, balanceBaseAmount, inFlight, orphaned, cryptoVars, appVars, hookVars>>

setAmountInput ==
    \E a \in FormAmounts :
        /\ a # amountInput
        /\ amountInput' = a
        /\ UNCHANGED <<destination, memo, error, isSending, resultHash, showConfirm, feeAmount,
                       client, balanceBaseAmount, inFlight, orphaned, cryptoVars, appVars, hookVars>>

setMemo ==
    \E m \in FormMemos :
        /\ m # memo
        /\ memo' = m
        /\ UNCHANGED <<destination, amountInput, error, isSending, resultHash, showConfirm,
                       feeAmount, client, balanceBaseAmount, inFlight, orphaned, cryptoVars, appVars, hookVars>>

\* the App re-renders the form with another balance or signing client
PropsChange ==
    \E b \in FormBalances, c \in BOOLEAN :
        /\ <<b, c>> # <<balanceBaseAmount, client>>
        /\ balanceBaseAmount' = b
        /\ client' = c
        /\ UNCHANGED <<destination, amountInput, memo, error, isSending, resultHash, showConfirm,
                       feeAmount, inFlight, orphaned, cryptoVars, appVars, hookVars>>

\* 'Reiniciar'
resetState ==
    /\ destination' = <<>>
    /\ amountInput' = <<>>
    /\ memo' = <<>>
    /\ showConfirm' = FALSE
    /\ feeAmount' = 0
    /\ error' = None
    /\ resultHash' = None
    /\ UNCHANGED <<isSending, client, balanceBaseAmount, inFlight, orphaned, cryptoVars, appVars, hookVars>>

\* 'Cancelar' in the confirmation panel
cancelConfirm ==
    /\ showConfirm
    /\ showConfirm' = FALSE
    /\ feeAmount' = 0
    /\ UNCHANGED <<destination, amountInput, memo, error, isSending, resultHash, client,
                   balanceBaseAmount, inFlight, orphaned, cryptoVars, appVars, hookVars>>

\* the checks of prepareSend, in order; "ok" when all pass
PrepareOutcome ==
    IF ~client THEN "noWallet"
    ELSE IF ~isValidAddress(Trim(destination)) THEN "badAddress"
    ELSE IF ~NumberOf(amountInput).finite \/ NumberOf(amountInput).val <= 0 THEN "badAmount"
    ELSE IF AmountBase(NumberOf(amountInput)) + FeeBase > available THEN "insufficient"
    ELSE "ok"

\* submit of the form ('Revisar y confirmar', disabled while isSending)
prepareSend ==
    LET outcome == PrepareOutcome
    IN /\ ~isSending
       /\ resultHash' = None
       /\ error' = IF outcome = "ok" THEN None ELSE Some(outcome)
       /\ feeAmount' = IF outcome \in {"insufficient", "ok"} THEN FeeBase ELSE feeAmount
       /\ showConfirm' = IF outcome = "ok" THEN TRUE ELSE showConfirm
       /\ UNCHANGED <<destination, amountInput, memo, isSending, client, balanceBaseAmount,
                      inFlight, orphaned, cryptoVars, appVars, hookVars>>

\* a confirm button that is offered without a pending confirmation
ConfirmEnabled_noPanel == ~isSending

\* the confirmation panel is rendered and its button is enabled
ConfirmEnabled == showConfirm /\ ~isSending

\* 'Confirmar y enviar': handleSend up to `await client.sendTokens(...)`
handleSend ==
    /\ ConfirmEnabled
    /\ IF ~client THEN UNCHANGED <<error, isSending, inFlight>>
       ELSE IF ~CoinsAccepts(NumberOf(amountInput))
       THEN /\ error' = Some("thrownError")
            /\ isSending' = FALSE
            /\ UNCHANGED inFlight
       ELSE /\ error' = None
            /\ isSending' = TRUE
            /\ inFlight' = Some([phase |-> "sendTokens",
                                 destination |-> Trim(destination),
                                 amountBase |-> AmountBase(NumberOf(amountInput)),
                                 feeBase |-> FeeBase,
                                 available |-> available])
    /\ UNCHANGED <<destination, amountInput, memo, resultHash, showConfirm, feeAmount, client,
                   balanceBaseAmount, orphaned, cryptoVars, appVars, hookVars>>

SendCodes == {5}
SendMessages == {"out of gas", "timeout"}

\* how `await client.sendTokens(...)` may settle: a result with code 0, a
\* result with another code and its rawLog, or a thrown value: an object with
\* a code (with or without a message), an Error, or anything else
SendOutcomes ==
    {[kind |-> "ok", code |-> 0, message |-> None]}
    \cup {[kind |-> "chainCode", code |-> c, message |-> Some(m)] :
              c \in SendCodes, m \in SendMessages}
    \cup {[kind |-> "thrownCode", code |-> c, message |-> m] :
              c \in SendCodes, m \in {None} \cup {Some(m) : m \in SendMessages}}
    \cup {[kind |-> "thrownError", code |-> 0, message |-> Some(m)] : m \in SendMessages}
    \cup {[kind |-> "thrownOther", code |-> 0, message |-> None]}

\* the text handleSend passes to setError (accents left out)
sendErrorText(outcome) ==
    IF outcome.kind = "chainCode"
    THEN "No se pudo enviar la transaccion. Codigo de error: " \o ToString(outcome.code)
         \o ". Mensaje: " \o Get(outcome.message)
    ELSE IF outcome.kind = "thrownCode"
    THEN "No se pudo enviar la transaccion. Codigo de error: " \o ToString(outcome.code)
         \o ". Mensaje: "
         \o (IF outcome.message = None THEN "Error desconocido" ELSE Get(outcome.message))
    ELSE IF outcome.kind = "thrownError"
    THEN "No se pudo enviar la transaccion. Mensaje: " \o Get(outcome.message)
    ELSE "No se pudo enviar la transaccion. Revisa los datos e intenta nuevamente."

\* client.sendTokens settles: result code 0, a non-zero code, or a thrown value
sendTokensReplies(outcome) ==
        /\ IsSome(inFlight)
        /\ Get(inFlight).phase = "sendTokens"
        /\ IF outcome.kind = "ok"
           THEN /\ inFlight' = Some([Get(inFlight) EXCEPT !.phase = "refresh"])
                /\ resultHash' = Some("hash")
                /\ showConfirm' = FALSE
                /\ feeAmount' = 0
                /\ destination' = <<>>
                /\ amountInput' = <<>>
                /\ memo' = <<>>
                /\ UNCHANGED <<error, isSending>>
           ELSE /\ inFlight' = None
                /\ error' = Some(sendErrorText(outcome))
                /\ isSending' = FALSE
                /\ UNCHANGED <<destination, amountInput, memo, resultHash, showConfirm, feeAmount>>
        /\ UNCHANGED <<client, balanceBaseAmount, orphaned, cryptoVars, appVars, hookVars>>

sendTokensSettles == \E outcome \in SendOutcomes : sendTokensReplies(outcome)

\* `await onRefreshBalance()` settles (it never rejects); finally: setIsSending(false)
refreshSettles ==
    \E b \in FormBalances :
        /\ IsSome(inFlight)
        /\ Get(inFlight).phase = "refresh"
        /\ inFlight' = None
        /\ balanceBaseAmount' = b
        /\ isSending' = FALSE
        /\ UNCHANGED <<destination, amountInput, memo, error, resultHash, showConfirm, feeAmount,
                       client, orphaned, cryptoVars, appVars, hookVars>>

\* the App unmounts the form and mounts a new one (tab change, or the wallet
\* becoming inactive and active again); a handleSend call of the old instance
\* keeps running but its state updates are dropped
Remount ==
    /\ IsSome(inFlight) => orphaned.sendTokens + orphaned.refresh < MaxOrphaned
    /\ destination' = <<>>
    /\ amountInput' = <<>>
    /\ memo' = <<>>
    /\ error' = None
    /\ isSending' = FALSE
    /\ resultHash' = None
    /\ showConfirm' = FALSE
    /\ feeAmount' = 0
    /\ inFlight' = None
    /\ orphaned' = IF IsSome(inFlight) THEN [orphaned EXCEPT ![Get(inFlight).phase] = @ + 1]
                    ELSE orphaned
    /\ UNCHANGED <<client, balanceBaseAmount, cryptoVars, appVars, hookVars>>

\* client.sendTokens of a handleSend call of an unmounted form settles: with
\* code 0 the call goes on to `await onRefreshBalance()`, otherwise it ends;
\* its state updates are dropped
orphanSendSettles ==
    \E ok \in BOOLEAN :
        /\ orphaned.sendTokens > 0
        /\ orphaned' = [sendTokens |-> orphaned.sendTokens - 1,
                        refresh |-> orphaned.refresh + (IF ok THEN 1 ELSE 0)]
        /\ UNCHANGED <<destination, amountInput, memo, error, isSending, resultHash, showConfirm,
                       feeAmount, client, balanceBaseAmount, inFlight, cryptoVars, appVars,
                       hookVars>>

\* a handleSend call of an unmounted form runs to its end: only the balance
\* refresh it triggers in the App is seen by the mounted form
orphanSettles ==
    \E b \in FormBalances :
        /\ orphaned.refresh > 0
        /\ orphaned' = [orphaned EXCEPT !.refresh = @ - 1]
        /\ balanceBaseAmount' = b
        /\ UNCHANGED <<destination, amountInput, memo, error, isSending, resultHash, showConfirm,
                       feeAmount, client, inFlight, cryptoVars, appVars, hookVars>>

NextForm ==
    \/ setDestination \/ setAmountInput \/ setMemo \/ PropsChange
    \/ resetState \/ cancelConfirm \/ prepareSend \/ handleSend
    \/ sendTokensSettles \/ refreshSettles \/ Remount \/ orphanSendSettles \/ orphanSettles

SpecForm == Init /\ [][NextForm]_vars

\* a step in which client.sendTokens is called
SendCalled == inFlight = None /\ IsSome(inFlight')

\* C1: the sendTokens call of the form passes a destination in the network
\* address format and an amount that, with the fee, fits the balance held by the
\* form when the call is made.
C1_SendRespectsChecks ==
    IsSome(inFlight) =>
        /\ isValidAddress(Get(inFlight).destination)
        /\ Get(inFlight).amountBase + Get(inFlight).feeBase <= Get(inFlight).available

\* C2: sendTokens is called only by the confirm action, taken while a
\* confirmation opened by a successful prepare is pending; prepare never sends.
C2_ConfirmGate ==
    [][/\ SendCalled => handleSend /\ showConfirm
       /\ (~showConfirm /\ showConfirm') => prepareSend /\ PrepareOutcome = "ok"
       /\ prepareSend => ~SendCalled]_vars

C2_Witness == IsSome(inFlight) /\ Get(inFlight).phase = "sendTokens" /\ showConfirm /\ isSending

\* C3: with a client, a valid destination and a finite positive amount, prepare
\* leaves a confirmation pending exactly when amount plus fee fit the balance,
\* and reports insufficient funds otherwise.
C3_PrepareBoundary ==
    [][prepareSend /\ PrepareOutcome \in {"ok", "insufficient"}
          => /\ showConfirm' = (AmountBase(NumberOf(amountInput)) + FeeBase <= available)
             /\ (~showConfirm' => error' = Some("insufficient"))]_vars

(***************************************************************************)
(* SpecCrypto: callers of encryptSecrets / decryptSecrets                  *)
(***************************************************************************)
\* encryptSecrets up to its first await: iv and salt are drawn, deriveKey is pending
EncryptBegin ==
    \E in \in CryptoInputs :
        /\ rngDraws < 2 * MaxEncryptCalls
        /\ encCalls' = encCalls \cup
              {[secrets |-> in.secrets, password |-> in.password, type |-> in.type,
                address |-> in.address, draw |-> rngDraws]}
        /\ rngDraws' = rngDraws + 2
        /\ UNCHANGED <<encrypted, decrypted, formVars, appVars, hookVars>>

\* the awaited deriveKey and encrypt settle and encryptSecrets returns its record
EncryptReturn ==
    \E c \in encCalls :
        /\ encCalls' = encCalls \ {c}
        /\ encrypted' = encrypted \cup
              {[in |-> c,
                rec |-> encryptSecrets(c.secrets, c.password, c.type, c.address, c.draw)]}
        /\ UNCHANGED <<rngDraws, decrypted, formVars, appVars, hookVars>>

Decrypt ==
    \E e \in encrypted, p \in CryptoPasswords :
        /\ decrypted' = Some([of |-> e, password |-> p, out |-> decryptSecrets(e.rec, p)])
        /\ UNCHANGED <<rngDraws, encCalls, encrypted, formVars, appVars, hookVars>>

NextCrypto == EncryptBegin \/ EncryptReturn \/ Decrypt

SpecCrypto == Init /\ [][NextCrypto]_vars

\* C7: decrypting a record with the password it was encrypted under returns the
\* secrets that were encrypted, and the record carries the address and type given.
C7_RoundTrip ==
    /\ \A e \in encrypted : e.rec.address = e.in.address /\ e.rec.type = e.in.type
    /\ IsSome(decrypted) /\ Get(decrypted).password = Get(decrypted).of.in.password
          => /\ Get(decrypted).out.ok
             /\ Get(decrypted).out.secrets = Get(decrypted).of.in.secrets

C7_Witness ==
    /\ IsSome(decrypted)
    /\ Get(decrypted).password = Get(decrypted).of.in.password
    /\ Get(decrypted).of.in.secrets = SecretsOfMnemonic(OddText)
    /\ Get(decrypted).out.ok

\* C9: no two encryptSecrets calls, whatever their interleaving and inputs,
\* return records with the same iv or the same salt.
C9_FreshIvSalt ==
    \A e1, e2 \in encrypted :
        e1.in.draw # e2.in.draw => e1.rec.iv # e2.rec.iv /\ e1.rec.salt # e2.rec.salt

\* two interleaved calls with identical inputs have both returned
C9_Witness ==
    \E e1, e2 \in encrypted :
        /\ e1.in.draw < e2.in.draw
        /\ e1.in.secrets = e2.in.secrets /\ e1.in.password = e2.in.password
        /\ e1.in.type = e2.in.type /\ e1.in.address = e2.in.address

(***************************************************************************)
(* lib/wallet.ts: the stored record and the signers                        *)
(***************************************************************************)
KeyAddress == <<97, 100, 100, 114, 101, 115, 115>>
KeyType == <<116, 121, 112, 101>>
KeyCiphertext == <<99, 105, 112, 104, 101, 114, 116, 101, 120, 116>>
KeyIv == <<105, 118>>
KeySalt == <<115, 97, 108, 116>>
TextPrivateKey == <<112, 114, 105, 118, 97, 116, 101, 75, 101, 121>>

\* the text of a WalletSource value, and back
WalletSourceText(type) == IF type = "mnemonic" THEN KeyMnemonic ELSE TextPrivateKey

WalletSourceOf(text) ==
    IF text = KeyMnemonic THEN "mnemonic"
    ELSE IF text = TextPrivateKey THEN "privateKey"
    ELSE "unknown"

\* a stringify that files the iv under 'salt' and the salt under 'iv'
JsonStringifyWallet_swapped(payload) ==
    <<123>> \o JsonMember(KeyAddress, payload.address)
        \o <<44>> \o JsonMember(KeyType, WalletSourceText(payload.type))
        \o <<44>> \o JsonMember(KeyCiphertext, payload.ciphertext)
        \o <<44>> \o JsonMember(KeyIv, payload.salt)
        \o <<44>> \o JsonMember(KeySalt, payload.iv)
        \o <<125>>

\* JSON.stringify({...payload}) of an EncryptedWalletShape
JsonStringifyWallet(payload) ==
    <<123>> \o JsonMember(KeyAddress, payload.address)
        \o <<44>> \o JsonMember(KeyType, WalletSourceText(payload.type))
        \o <<44>> \o JsonMember(KeyCiphertext, payload.ciphertext)
        \o <<44>> \o JsonMember(KeyIv, payload.iv)
        \o <<44>> \o JsonMember(KeySalt, payload.salt)
        \o <<125>>

\* getStoredWallet(), given the value of localStorage under STORAGE_KEY
getStoredWallet(stored) ==
    IF stored = None \/ Get(stored) = <<>> THEN None
    ELSE LET parsed == JsonParseObject(Get(stored))
         IN IF ~parsed.ok THEN None
            ELSE Some([address |-> JsonField(parsed.members, KeyAddress),
                       type |-> WalletSourceOf(JsonField(parsed.members, KeyType)),
                       ciphertext |-> JsonField(parsed.members, KeyCiphertext),
                       iv |-> JsonField(parsed.members, KeyIv),
                       salt |-> JsonField(parsed.members, KeySalt)])

\* persistWallet(payload): the value written under STORAGE_KEY
persistWallet(payload) == Some(JsonStringifyWallet(payload))

\* clearPersistedWallet(): the key is removed
clearPersistedWallet == None

ToLowerCase(str) == [i \in 1..Len(str) |-> IF str[i] \in 65..90 THEN str[i] + 32 ELSE str[i]]

\* str.replace(/\s+/g, ' ')
RECURSIVE CollapseWhitespace(_)
CollapseWhitespace(str) ==
    IF Len(str) = 0 THEN <<>>
    ELSE LET rest == CollapseWhitespace(Tail(str))
         IN IF str[1] \notin WHITESPACE THEN <<str[1]>> \o rest
            ELSE IF Len(str) > 1 /\ str[2] \in WHITESPACE THEN rest
            ELSE <<32>> \o rest

\* bip39 validateMnemonic, idealised: word list and checksum accept exactly
\* these phrases
Bip39Phrases == {Mnemonic1, Mnemonic2}

\* a validation that accepts every phrase
validateMnemonic_any(normalized) == Len(normalized) >= 0

validateMnemonic(normalized) == normalized \in Bip39Phrases

AddressAlphabet == SubSeq(HexDigits, 1, 10) \o [i \in 1..26 |-> 96 + i]

\* the bech32 address of the first account of a signer, idealised: a
\* function of the key material alone
DeriveAddress(keyMaterial) ==
    LET digest == SumSeq(keyMaterial)
    IN ADDRESS_PREFIX \o <<49>> \o
       [i \in 1..38 |->
           AddressAlphabet[((digest + i * keyMaterial[((i - 1) % Len(keyMaterial)) + 1]) % 36) + 1]]

NoSigner == [ok |-> FALSE, address |-> <<>>, secrets |-> NoSecrets, type |-> "mnemonic"]

createSignerFromMnemonic(mnemonic) ==
    LET normalized == CollapseWhitespace(ToLowerCase(Trim(mnemonic)))
    IN IF ~validateMnemonic(normalized) THEN NoSigner
       ELSE [ok |-> TRUE,
             address |-> DeriveAddress(Utf8Encode(normalized)),
             secrets |-> SecretsOfMnemonic(normalized),
             type |-> "mnemonic"]

HexValue(c) ==
    IF c \in 48..57 THEN c - 48 ELSE IF c \in 97..102 THEN c - 87 ELSE c - 55

\* /^[0-9a-fA-F]{64}$/.test(value.trim())
validatePrivateKeyHex(value) ==
    LET v == Trim(value)
    IN Len(v) = 64 /\ \A i \in 1..64 : v[i] \in (48..57) \cup (97..102) \cup (65..70)

fromHex(hex) == [i \in 1..(Len(hex) \div 2) |-> 16 * HexValue(hex[2 * i - 1]) + HexValue(hex[2 * i])]

createSignerFromPrivateKey(privateKeyHex) ==
    LET cleaned == Trim(privateKeyHex)
    IN IF ~validatePrivateKeyHex(cleaned) THEN NoSigner
       ELSE [ok |-> TRUE,
             address |-> DeriveAddress(fromHex(cleaned)),
             secrets |-> SecretsOfKey(cleaned),
             type |-> "privateKey"]

(***************************************************************************)
(* App (tabbed, one stored wallet)                                         *)
(***************************************************************************)
\* what the user types into WalletImportForm
RawMnemonic1 == <<32, 65, 66, 32, 32, 99, 100>>          \* ' AB  cd'
BadMnemonic == <<97, 98, 32, 122, 122>>                  \* 'ab zz'
RawPrivKey1 == [i \in 1..64 |-> IF PrivKey1[i] = 97 THEN 65 ELSE PrivKey1[i]]
BadPrivKey == [i \in 1..64 |-> IF i = 64 THEN 103 ELSE PrivKey1[i]]    \* ends in 'g'

ImportPayloads ==
    { [type |-> "mnemonic", text |-> RawMnemonic1, persist |-> TRUE, password |-> Password1],
      [type |-> "privateKey", text |-> RawPrivKey1, persist |-> TRUE, password |-> Password2],
      [type |-> "mnemonic", text |-> Mnemonic2, persist |-> FALSE, password |-> Undef],
      [type |-> "mnemonic", text |-> Mnemonic1, persist |-> TRUE, password |-> <<>>],
      [type |-> "mnemonic", text |-> BadMnemonic, persist |-> FALSE, password |-> Undef],
      [type |-> "privateKey", text |-> BadPrivKey, persist |-> TRUE, password |-> Password1] }

UnlockPasswords == {Password1, Password2}

\* balances the chain may report for an account
ChainBalances == {0, FeeBase + 2}

MaxConnecting == 1

\* encryptSecrets calls the App makes in one run of the model
MaxPersists == 1

isConnected == queryClient

OtherChainId == <<116, 104, 101, 116, 97>>                           \* 'theta'

\* what the user may have typed in the expected chain-id field
ChainIdInputs == {<<32>>, CHAIN_ID \o <<32>>, <<32>> \o OtherChainId}

\* what the node at the RPC address may answer to getChainId()
RemoteChainIds == {CHAIN_ID, OtherChainId}

\* expectedChainId.trim() || DEFAULT_CHAIN.chainId
trimmedChainId(expectedChainId) ==
    IF Trim(expectedChainId) = <<>> THEN CHAIN_ID ELSE Trim(expectedChainId)

\* a client that was obtained: what it reported, what was expected of it and
\* whether disconnect() was called on it
ClientSeen(remoteChainId, expectedChainId, closed) ==
    Some([remote |-> remoteChainId, expected |-> expectedChainId, closed |-> closed])

\* a client that is held by the App
ClientHeld(seen) == Some([remote |-> Get(seen).remote, expected |-> Get(seen).expected])

\* a signing client factory that accepts whatever chain id the node reports
instantiateSigningClient_anyChain(connected, remoteChainId, expectedChainId) ==
    IF ~connected THEN [ok |-> FALSE, error |-> "network", client |-> None]
    ELSE [ok |-> TRUE, error |-> "", client |-> ClientSeen(remoteChainId, expectedChainId, FALSE)]

\* instantiateSigningClient: connectWithSigner rejects, or the client reports
\* another chain id and is disconnected before the throw, or it is returned
instantiateSigningClient(connected, remoteChainId, expectedChainId) ==
    IF ~connected THEN [ok |-> FALSE, error |-> "network", client |-> None]
    ELSE IF remoteChainId # expectedChainId
    THEN [ok |-> FALSE, error |-> "chainId",
          client |-> ClientSeen(remoteChainId, expectedChainId, TRUE)]
    ELSE [ok |-> TRUE, error |-> "", client |-> ClientSeen(remoteChainId, expectedChainId, FALSE)]

\* the try block of handleConnect up to getHeight: StargateClient.connect
\* rejects, or the client reports another chain id and is disconnected before
\* the throw, or it is kept
connectChecked(connected, remoteChainId, trimmed) ==
    IF ~connected THEN [ok |-> FALSE, error |-> "connect", client |-> None]
    ELSE IF remoteChainId # trimmed
    THEN [ok |-> FALSE, error |-> "chainId", client |-> ClientSeen(remoteChainId, trimmed, TRUE)]
    ELSE [ok |-> TRUE, error |-> "", client |-> ClientSeen(remoteChainId, trimmed, FALSE)]

\* the disabled flag of a tab
TabDisabled(tab) ==
    IF tab = "wallet" THEN ~isConnected
    ELSE IF tab = "send" THEN activeWallet = None
    ELSE FALSE

\* the user is on the tab or can switch to it (TabNavigation onChange); the
\* switch is taken together with the click that follows it
CanOpen(tab) == activeTab = tab \/ ~TabDisabled(tab)

\* ConnectView 'Conectar' (settings tab, disabled while connected): handleConnect
\* up to its awaits on the network
handleConnect ==
    /\ CanOpen("settings")
    /\ ~isConnected
    /\ connecting < MaxConnecting
    /\ connecting' = connecting + 1
    /\ connectionError' = None
    /\ activeTab' = "settings"
    /\ UNCHANGED <<localStorage, queryClient, signingClient, activeWallet, storedWallet, balance,
                   errorMessage, unlockError, isImporting, isUnlocking, importTask,
                   unlockTask, lastPersist, disconnected, cryptoVars, formVars,
                   queryChain, signingChain, hookVars>>

\* StargateClient.connect / getChainId / getHeight settle: connected, or the
\* catch branch (network error or chain-id mismatch)
connectReplies(connected, remoteChainId, expectedChainId) ==
        /\ connecting > 0
        /\ connecting' = connecting - 1
        /\ \E made \in {connectChecked(connected, remoteChainId, trimmedChainId(expectedChainId))} :
              /\ IF made.ok
                 THEN /\ queryClient' = TRUE
                      /\ queryChain' = ClientHeld(made.client)
                      /\ activeTab' = "wallet"
                      /\ UNCHANGED connectionError
                 ELSE /\ queryClient' = FALSE
                      /\ queryChain' = None
                      /\ connectionError' = Some(made.error)
                      /\ UNCHANGED activeTab
        /\ UNCHANGED <<localStorage, signingClient, activeWallet, storedWallet, balance,
                       errorMessage, unlockError, isImporting, isUnlocking, importTask,
                       unlockTask, lastPersist, disconnected, signingChain, cryptoVars,
                       formVars, hookVars>>

\* a reply is described once: no chain id when the connection failed
ReplyIsCanonical(connected, remoteChainId, expectedChainId) ==
    ~connected => remoteChainId = CHAIN_ID /\ expectedChainId = <<32>>

connectSettles ==
    \E connected \in BOOLEAN, remoteChainId \in RemoteChainIds, expectedChainId \in ChainIdInputs :
        /\ ReplyIsCanonical(connected, remoteChainId, expectedChainId)
        /\ connectReplies(connected, remoteChainId, expectedChainId)

\* ConnectView 'Desconectar' (disabled unless connected): handleDisconnect.
\* Both disconnect() calls it awaits return at once.
handleDisconnect ==
    /\ CanOpen("settings")
    /\ isConnected
    /\ signingClient' = None
    /\ queryClient' = FALSE
    /\ activeWallet' = None
    /\ balance' = 0
    /\ activeTab' = "settings"
    /\ disconnected' = TRUE
    /\ queryChain' = None
    /\ signingChain' = None
    /\ UNCHANGED <<localStorage, connecting, storedWallet, errorMessage, unlockError,
                   connectionError, isImporting, isUnlocking, importTask, unlockTask,
                   lastPersist, cryptoVars, formVars, hookVars>>

\* the import form is rendered and its submit button is enabled
ImportEnabled == CanOpen("wallet") /\ activeWallet = None /\ isConnected /\ ~isImporting

createSigner(type, text) ==
    IF type = "mnemonic" THEN createSignerFromMnemonic(text) ELSE createSignerFromPrivateKey(text)

\* the signer each payload of the form yields
ImportSigners == [payload \in ImportPayloads |-> createSigner(payload.type, payload.text)]

\* the payload asks for a save that encryptSecrets will be called for
WillEncrypt(payload) == payload.persist /\ payload.password # Undef /\ payload.password # <<>>

\* the signer handleUnlockWallet rebuilds from decrypted secrets
unlockSigner(stored, secrets) ==
    IF stored.type = "mnemonic" /\ secrets.mnemonic # Undef /\ secrets.mnemonic # <<>>
    THEN createSignerFromMnemonic(secrets.mnemonic)
    ELSE IF stored.type = "privateKey" /\ secrets.privateKeyHex # Undef
            /\ secrets.privateKeyHex # <<>>
    THEN createSignerFromPrivateKey(secrets.privateKeyHex)
    ELSE NoSigner

\* the records encryptSecrets returns to handleImportWallet, by payload and by
\* the RNG draw the call starts at
EncryptDraws == {2 * k : k \in 0..(MaxPersists - 1)}

encryptSecretsFor(signer, password, draw) ==
    encryptSecrets(signer.secrets, password, signer.type, signer.address, draw)

EncryptedBy ==
    [payload \in {p \in ImportPayloads : WillEncrypt(p) /\ ImportSigners[p].ok},
     draw \in EncryptDraws |-> encryptSecretsFor(ImportSigners[payload], payload.password, draw)]

\* what persistWallet writes for each record handleImportWallet saves
Saved ==
    {[record |-> Some(EncryptedBy[k]), value |-> persistWallet(EncryptedBy[k])] :
        k \in DOMAIN EncryptedBy}

\* a saved record whose iv / salt has lost its last byte
ShortIv(record) ==
    [record EXCEPT !.iv = bufferToBase64(SubSeq(base64ToBuffer(record.iv), 1, IV_LENGTH - 1))]

ShortSalt(record) ==
    [record EXCEPT
        !.salt = bufferToBase64(SubSeq(base64ToBuffer(record.salt), 1, SALT_LENGTH - 1))]

GarbageText == <<97, 98, 99>>                                    \* 'abc'
TruncatedText == <<123, 34, 97, 100, 100, 114, 101, 115, 115, 34, 58, 34>>  \* '{"address":"'

\* the values the browser may hold under STORAGE_KEY when the page is
\* opened: nothing, an empty or damaged text, a saved record, or a saved
\* record with a shortened iv or salt
Held ==
    {[record |-> None, value |-> v] :
        v \in {None, Some(<<>>), Some(GarbageText), Some(TruncatedText)}}
    \cup UNION {{saved,
                 [record |-> None, value |-> persistWallet(ShortIv(Get(saved.record)))],
                 [record |-> None, value |-> persistWallet(ShortSalt(Get(saved.record)))]} :
                saved \in Saved}

\* what getStoredWallet reads from each of these values
StoreEntry(record, value) ==
    [record |-> record, value |-> value, read |-> getStoredWallet(value)]

Stores == {StoreEntry(held.record, held.value) : held \in Held}

\* getStoredWallet() for each value localStorage holds under STORAGE_KEY
ReadStored(value) == (CHOOSE s \in Stores : s.value = value).read

\* the records handleUnlockWallet may find in storedWallet: the one
\* handleImportWallet set, or the one read at mount
StoredRecords == UNION {{Get(r) : r \in {s.record, s.read} \ {None}} : s \in Stores}

\* what decryptSecrets returns for a record under a password, and the signer
\* handleUnlockWallet builds from it
UnlockEntry(stored, password, opened) ==
    [stored |-> stored, password |-> password, opened |-> opened,
     signer |-> unlockSigner(stored, opened.secrets)]

Unlocks ==
    {UnlockEntry(stored, password, decryptSecrets(stored, password)) :
        stored \in StoredRecords, password \in UnlockPasswords}

\* WalletImportForm submit: handleImportWallet up to the await of
\* instantiateSigningClient.  A rejected credential ends the handler in its
\* catch branch; otherwise disconnectSigningClient() drops the client the
\* handler was created with.
submitImport(payload) ==
    /\ ImportEnabled
    /\ WillEncrypt(payload) => rngDraws < 2 * MaxPersists
    /\ disconnected' = FALSE
    /\ activeTab' = "wallet"
    /\ IF ImportSigners[payload].ok
       THEN /\ errorMessage' = None
            /\ isImporting' = TRUE
            /\ signingClient' = None
            /\ importTask' = Some([pc |-> "network", payload |-> payload, draw |-> 0,
                                  changed |-> signingClient # None])
       ELSE /\ errorMessage' = Some("invalidCredential")
            /\ UNCHANGED <<isImporting, importTask, signingClient>>
    /\ signingChain' = IF signingClient' = None THEN None ELSE signingChain
    /\ UNCHANGED <<localStorage, queryClient, connecting, activeWallet,
                   storedWallet, balance, unlockError, connectionError, isUnlocking,
                   unlockTask, lastPersist, cryptoVars, formVars,
                   queryChain, hookVars>>

handleImportWallet == \E payload \in ImportPayloads : submitImport(payload)

\* instantiateSigningClient and getBalance settle.  On success the wallet is
\* activated; then the record is cleared, or encryptSecrets is called and
\* draws its iv and salt.
importNetworkReplies(ok, remoteChainId, expectedChainId, amount) ==
        /\ IsSome(importTask)
        /\ Get(importTask).pc = "network"
        /\ ~ok => amount = 0
        /\ LET task == Get(importTask)
               nextWallet == ImportSigners[task.payload]
               made == instantiateSigningClient(ok, remoteChainId,
                                                trimmedChainId(expectedChainId))
           IN IF ~made.ok
                 THEN /\ errorMessage' = Some(made.error)
                      /\ isImporting' = FALSE
                      /\ importTask' = None
                      /\ UNCHANGED <<signingClient, signingChain, activeWallet, balance,
                                     localStorage, storedWallet, activeTab, rngDraws,
                                     lastPersist>>
                 ELSE /\ signingClient' = Some(nextWallet.address)
                      /\ signingChain' = ClientHeld(made.client)
                      /\ activeWallet' = Some([address |-> nextWallet.address,
                                               type |-> nextWallet.type])
                      /\ balance' = amount
                      /\ UNCHANGED errorMessage
                      /\ IF WillEncrypt(task.payload)
                         THEN /\ importTask' = Some([task EXCEPT !.pc = "encrypt",
                                                                 !.draw = rngDraws,
                                                                 !.changed = TRUE])
                              /\ rngDraws' = rngDraws + 2
                              /\ UNCHANGED <<localStorage, storedWallet, activeTab, isImporting,
                                             lastPersist>>
                         ELSE /\ localStorage' = clearPersistedWallet
                              /\ storedWallet' = None
                              /\ lastPersist' = None
                              /\ activeTab' = "wallet"
                              /\ isImporting' = FALSE
                              /\ importTask' = None
                              /\ UNCHANGED rngDraws
        /\ UNCHANGED <<queryClient, connecting, unlockError, connectionError, isUnlocking,
                       unlockTask, disconnected, queryChain, encCalls, encrypted, decrypted,
                       formVars, hookVars>>

importNetworkSettles ==
    \E ok \in BOOLEAN, remoteChainId \in RemoteChainIds, expectedChainId \in ChainIdInputs,
       amount \in ChainBalances :
        /\ ReplyIsCanonical(ok, remoteChainId, expectedChainId)
        /\ remoteChainId # trimmedChainId(expectedChainId) => amount = 0
        /\ importNetworkReplies(ok, remoteChainId, expectedChainId, amount)

\* encryptSecrets settles.  When it returns, persistWallet(encrypted) and
\* setStoredWallet(encrypted) follow; when it rejects (crypto.subtle refuses)
\* or localStorage.setItem throws, the handler ends in its catch branch.
importEncrypted ==
    \E ok \in BOOLEAN :
        /\ IsSome(importTask)
        /\ Get(importTask).pc = "encrypt"
        /\ IF ok
           THEN /\ \E task \in {Get(importTask)},
                      record \in {EncryptedBy[Get(importTask).payload, Get(importTask).draw]} :
                      /\ localStorage' = persistWallet(record)
                      /\ storedWallet' = Some(record)
                      /\ lastPersist' = Some([record |-> record,
                                              password |-> task.payload.password,
                                              reloaded |-> FALSE])
                /\ activeTab' = "wallet"
                /\ UNCHANGED errorMessage
           ELSE /\ errorMessage' = Some("encrypt")
                /\ UNCHANGED <<localStorage, storedWallet, lastPersist, activeTab>>
        /\ isImporting' = FALSE
        /\ importTask' = None
        /\ UNCHANGED <<queryClient, connecting, signingClient, activeWallet, balance,
                       unlockError, connectionError, isUnlocking, unlockTask, disconnected,
                       cryptoVars, formVars,
                       queryChain, signingChain, hookVars>>

\* StoredWalletUnlock is rendered and its buttons are enabled
UnlockEnabled ==
    CanOpen("wallet") /\ activeWallet = None /\ storedWallet # None /\ ~isUnlocking

\* 'Desbloquear': handleUnlockWallet up to `await decryptSecrets(...)`
handleUnlockWallet ==
    \E password \in UnlockPasswords :
        /\ UnlockEnabled
        /\ unlockError' = None
        /\ isUnlocking' = TRUE
        /\ unlockTask' = Some([pc |-> "decrypt", password |-> password,
                               storedWallet |-> Get(storedWallet), client |-> signingClient,
                               changed |-> FALSE])
        /\ disconnected' = FALSE
        /\ activeTab' = "wallet"
        /\ UNCHANGED <<localStorage, queryClient, connecting, signingClient, activeWallet,
                       storedWallet, balance, errorMessage, connectionError, isImporting,
                       importTask, lastPersist, cryptoVars, formVars,
                       queryChain, signingChain, hookVars>>

\* decryptSecrets settles.  A rejection, or secrets no signer can be built
\* from, end the handler in its catch branch; otherwise the signer is built,
\* disconnectSigningClient() runs and instantiateSigningClient is pending.
unlockDecrypted ==
    /\ IsSome(unlockTask)
    /\ Get(unlockTask).pc = "decrypt"
    /\ \E task \in {Get(unlockTask)}, unlock \in Unlocks :
          /\ unlock.stored = task.storedWallet
          /\ unlock.password = task.password
          /\ IF ~unlock.opened.ok
             THEN /\ unlockError' = Some("decrypt")
                  /\ isUnlocking' = FALSE
                  /\ unlockTask' = None
                  /\ UNCHANGED signingClient
             ELSE IF ~unlock.signer.ok
             THEN /\ unlockError' = Some("signer")
                  /\ isUnlocking' = FALSE
                  /\ unlockTask' = None
                  /\ UNCHANGED signingClient
             ELSE /\ signingClient' = IF task.client # None THEN None ELSE signingClient
                  /\ unlockTask' = Some([task EXCEPT !.pc = "network",
                                                     !.changed = (signingClient' # signingClient)])
                  /\ UNCHANGED <<unlockError, isUnlocking>>
    /\ signingChain' = IF signingClient' = None THEN None ELSE signingChain
    /\ UNCHANGED <<localStorage, queryClient, connecting, activeWallet, storedWallet, balance,
                   errorMessage, connectionError, isImporting, activeTab, importTask,
                   lastPersist, disconnected, cryptoVars, formVars,
                   queryChain, hookVars>>

\* instantiateSigningClient and getBalance settle for handleUnlockWallet
unlockNetworkReplies(ok, remoteChainId, expectedChainId, amount) ==
        /\ IsSome(unlockTask)
        /\ Get(unlockTask).pc = "network"
        /\ ~ok => amount = 0
        /\ \E task \in {Get(unlockTask)}, unlock \in Unlocks,
              made \in {instantiateSigningClient(ok, remoteChainId,
                                                trimmedChainId(expectedChainId))} :
              /\ unlock.stored = task.storedWallet
              /\ unlock.password = task.password
              /\ IF made.ok
                 THEN /\ signingClient' = Some(unlock.signer.address)
                      /\ signingChain' = ClientHeld(made.client)
                      /\ activeWallet' = Some([address |-> unlock.signer.address,
                                               type |-> task.storedWallet.type])
                      /\ balance' = amount
                      /\ errorMessage' = None
                      /\ unlockError' = None
                      /\ activeTab' = "wallet"
                 ELSE /\ unlockError' = Some(made.error)
                      /\ UNCHANGED <<signingClient, signingChain, activeWallet, balance,
                                     errorMessage, activeTab>>
        /\ isUnlocking' = FALSE
        /\ unlockTask' = None
        /\ UNCHANGED <<localStorage, queryClient, connecting, storedWallet, connectionError,
                       isImporting, importTask, lastPersist, disconnected, queryChain,
                       cryptoVars, formVars, hookVars>>

unlockNetworkSettles ==
    \E ok \in BOOLEAN, remoteChainId \in RemoteChainIds, expectedChainId \in ChainIdInputs,
       amount \in ChainBalances :
        /\ ReplyIsCanonical(ok, remoteChainId, expectedChainId)
        /\ remoteChainId # trimmedChainId(expectedChainId) => amount = 0
        /\ unlockNetworkReplies(ok, remoteChainId, expectedChainId, amount)

\* 'Olvidar' in StoredWalletUnlock: handleForgetWallet
handleForgetWallet ==
    /\ UnlockEnabled
    /\ localStorage' = clearPersistedWallet
    /\ storedWallet' = None
    /\ unlockError' = None
    /\ lastPersist' = None
    /\ activeTab' = "wallet"
    /\ UNCHANGED <<queryClient, connecting, signingClient, activeWallet, balance, errorMessage,
                   connectionError, isImporting, isUnlocking, importTask, unlockTask,
                   disconnected, cryptoVars, formVars,
                   queryChain, signingChain, hookVars>>

\* the page is loaded again: memory starts afresh, handlers in flight are
\* gone, localStorage is kept and the mount effect reads the stored wallet
Reload ==
    /\ activeTab' = "home"
    /\ queryClient' = FALSE
    /\ connecting' = 0
    /\ signingClient' = None
    /\ activeWallet' = None
    /\ storedWallet' = ReadStored(localStorage)
    /\ balance' = 0
    /\ errorMessage' = None
    /\ unlockError' = None
    /\ connectionError' = None
    /\ isImporting' = FALSE
    /\ isUnlocking' = FALSE
    /\ importTask' = None
    /\ unlockTask' = None
    /\ disconnected' = FALSE
    /\ lastPersist' = IF lastPersist = None THEN None
                      ELSE Some([Get(lastPersist) EXCEPT !.reloaded = TRUE])
    /\ queryChain' = None
    /\ signingChain' = None
    /\ UNCHANGED <<localStorage, cryptoVars, formVars, hookVars>>

NextApp ==
    \/ handleConnect \/ connectSettles \/ handleDisconnect
    \/ handleImportWallet \/ importNetworkSettles \/ importEncrypted
    \/ handleUnlockWallet \/ unlockDecrypted \/ unlockNetworkSettles
    \/ handleForgetWallet \/ Reload

SpecApp == Init /\ [][NextApp]_vars

\* the page is opened in a browser whose storage already holds some value
\* under STORAGE_KEY: memory starts afresh and the mount effect reads it
Open ==
    \E held \in Stores :
        /\ localStorage' = held.value
        /\ storedWallet' = held.read
        /\ activeTab' = "home"
        /\ queryClient' = FALSE
        /\ connecting' = 0
        /\ signingClient' = None
        /\ activeWallet' = None
        /\ balance' = 0
        /\ errorMessage' = None
        /\ unlockError' = None
        /\ connectionError' = None
        /\ isImporting' = FALSE
        /\ isUnlocking' = FALSE
        /\ importTask' = None
        /\ unlockTask' = None
        /\ disconnected' = FALSE
        /\ lastPersist' = None
        /\ queryChain' = None
        /\ signingChain' = None
        /\ UNCHANGED <<cryptoVars, formVars, hookVars>>

\* the app over a storage it did not write itself
NextStore ==
    \/ Open \/ Reload
    \/ handleConnect \/ connectSettles \/ handleDisconnect
    \/ handleUnlockWallet \/ unlockDecrypted \/ unlockNetworkSettles
    \/ handleForgetWallet

SpecStore == Init /\ [][NextStore]_vars

(***************************************************************************)
(* App.tsx, multi-wallet variant: the list of stored wallets               *)
(***************************************************************************)
StoredAddresses == {"plt1a", "plt1b"}

NameMain == <<109, 97, 105, 110>>       \* 'main'
NameAb == <<97, 98>>                    \* 'ab'

\* the records encryptSecrets may return to the handlers that save a wallet
EncryptedSamples ==
    {[address |-> a, type |-> "mnemonic", ciphertext |-> c, iv |-> c \o "-iv",
      salt |-> c \o "-salt", name |-> n] :
        a \in StoredAddresses, c \in {"c1", "c2"}, n \in {None, Some(NameMain)}}

\* what window.prompt may return: null on cancel, or the text typed
PromptAnswers == {None, Some(<<32>>), Some(<<32>> \o NameAb \o <<32>>), Some(NameMain)}

\* the positions of the records listed under an address
ListedAt(address) == {i \in 1..Len(storedWallets) : storedWallets[i].address = address}

\* storedWallets.find((item) => item.address === address)
FindStored(address) == storedWallets[CHOOSE i \in ListedAt(address) : \A j \in ListedAt(address) : i <= j]

\* the tail of handleImportWallet and handlePersistGeneratedWallet:
\* persistWallet(encrypted), then the record replaces the one listed under
\* its address or is appended
saveEncrypted ==
    \E record \in EncryptedSamples :
        /\ persisted' = Some(record)
        /\ storedWallets' =
              IF ListedAt(record.address) # {}
              THEN [i \in 1..Len(storedWallets) |->
                       IF i = (CHOOSE k \in ListedAt(record.address) :
                                  \A j \in ListedAt(record.address) : k <= j)
                       THEN record ELSE storedWallets[i]]
              ELSE Append(storedWallets, record)
        /\ UNCHANGED <<walletBeingUnlocked, pltVars, balVars, cryptoVars, formVars, appVars, chainVars, sessionVars>>

\* 'Desbloquear' on a listed wallet: handleSelectStoredWallet
handleSelectStoredWallet ==
    \E i \in 1..Len(storedWallets) :
        /\ walletBeingUnlocked' =
              IF walletBeingUnlocked # None
                 /\ Get(walletBeingUnlocked).address = storedWallets[i].address
              THEN None ELSE Some(storedWallets[i])
        /\ UNCHANGED <<storedWallets, persisted, pltVars, balVars, cryptoVars, formVars, appVars, chainVars, sessionVars>>

\* 'Olvidar' on a listed wallet: handleForgetStoredWallet
handleForgetStoredWallet ==
    \E address \in StoredAddresses :
        /\ ListedAt(address) # {}
        /\ storedWallets' = SelectSeq(storedWallets, LAMBDA item : item.address # address)
        /\ walletBeingUnlocked' =
              IF walletBeingUnlocked # None /\ Get(walletBeingUnlocked).address = address
              THEN None ELSE walletBeingUnlocked
        /\ UNCHANGED <<persisted, pltVars, balVars, cryptoVars, formVars, appVars, chainVars, sessionVars>>

\* trimmed || undefined
NormalizedName(nextName) == IF Trim(nextName) = <<>> THEN None ELSE Some(Trim(nextName))

\* a rename that also resets the salt of the record
renamedRecord_resalted(target, normalized) == [target EXCEPT !.name = normalized, !.salt = ""]

\* { ...target, name: normalized }
renamedRecord(target, normalized) == [target EXCEPT !.name = normalized]

\* 'Renombrar' on a listed wallet: handleRenameStoredWallet, for the answer
\* given to window.prompt.  A cancelled prompt and an unchanged name return
\* before anything is set.
renameStored(address, answer) ==
    /\ ListedAt(address) # {}
    /\ answer # None
    /\ FindStored(address).name # NormalizedName(Get(answer))
    /\ \E updated \in {renamedRecord(FindStored(address), NormalizedName(Get(answer)))} :
          /\ storedWallets' = [i \in 1..Len(storedWallets) |->
                                  IF storedWallets[i].address = address
                                  THEN updated ELSE storedWallets[i]]
          /\ walletBeingUnlocked' =
                IF walletBeingUnlocked # None /\ Get(walletBeingUnlocked).address = address
                THEN Some(updated) ELSE walletBeingUnlocked
          /\ persisted' = Some(updated)
    /\ UNCHANGED <<pltVars, balVars, cryptoVars, formVars, appVars, chainVars, sessionVars>>

handleRenameStoredWallet ==
    \E address \in StoredAddresses, answer \in PromptAnswers : renameStored(address, answer)

NextList ==
    \/ saveEncrypted \/ handleSelectStoredWallet \/ handleForgetStoredWallet
    \/ handleRenameStoredWallet

SpecList == Init /\ [][NextList]_vars

(***************************************************************************)
(* hooks/usePlt.ts                                                         *)
(***************************************************************************)
MaxClients == 3
MaxPltCalls == 2

RpcUrls == {"", "http://rpc.test"}
InitialChainIds == {None, Some("plt-test0")}
DetectedChainIds == {"plt-test0", "plt-test1"}
Heights == {42}

\* what a rejected await throws: an Error with its message, or another value
ThrownValues == {[isError |-> TRUE, message |-> "boom"], [isError |-> FALSE, message |-> ""]}

\* how the awaits of connect() may end: all resolve, or one of them rejects
\* (StargateClient.connect, getChainId, getHeight, localStorage.setItem)
PltOutcomes ==
    {[at |-> "none", thrown |-> [isError |-> FALSE, message |-> ""]]}
    \cup {[at |-> at, thrown |-> thrown] :
             at \in {"connect", "getChainId", "getHeight", "setItem"}, thrown \in ThrownValues}

PltFailures == {outcome \in PltOutcomes : outcome.at # "none"}

\* err instanceof Error ? err.message : 'No se pudo conectar al RPC.'
connectMessage(thrown) ==
    IF thrown.isError THEN thrown.message ELSE "No se pudo conectar al RPC."

\* a catch branch that reports nothing
catchState_silent(call, thrown) ==
    [client |-> None, chainId |-> call.initialChainId, height |-> 0, isConnected |-> FALSE,
     error |-> None]

\* what the catch branch of connect() sets
catchState(call, thrown) ==
    [client |-> None, chainId |-> call.initialChainId, height |-> 0, isConnected |-> FALSE,
     error |-> Some(connectMessage(thrown))]

\* the clients the cleanup of the [client] effect disconnects when the
\* client held changes to `next`
Dropped(next) == IF pltClient # None /\ pltClient # next THEN {Get(pltClient)} ELSE {}

\* connect() up to its first await: the flags are reset; without a url the
\* call ends here; disconnectSafely is called on the client the call was
\* created with and awaited, or, with no client, StargateClient.connect is
\* awaited
connect ==
    \E rpcUrl \in RpcUrls, initialChainId \in InitialChainIds, n \in 1..MaxPltCalls :
        /\ pltMade < MaxClients
        /\ \A call \in pltCalls : call.n # n
        /\ \A k \in 1..(n - 1) : \E call \in pltCalls : call.n = k
        /\ pltIsConnected' = FALSE
        /\ pltHeight' = 0
        /\ IF rpcUrl = ""
           THEN /\ pltError' = Some("La URL de RPC es obligatoria.")
                /\ UNCHANGED <<pltClient, pltCalls, pltClosed>>
           ELSE /\ pltError' = None
                /\ pltClosed' = pltClosed \cup (IF pltClient = None THEN {} ELSE {Get(pltClient)})
                /\ pltCalls' = pltCalls \cup
                      {[n |-> n, client |-> pltClient, initialChainId |-> initialChainId,
                        awaits |-> IF pltClient = None THEN "connect" ELSE "disconnect"]}
                /\ UNCHANGED pltClient
        /\ UNCHANGED <<pltChainId, pltMade, listVars, balVars, cryptoVars, formVars, appVars, chainVars, sessionVars>>

\* `await disconnectSafely(client)` of a connect() call ends: setClient(null),
\* and StargateClient.connect is awaited
connectDrops ==
    \E call \in pltCalls :
        /\ call.awaits = "disconnect"
        /\ pltCalls' = (pltCalls \ {call}) \cup {[call EXCEPT !.awaits = "connect"]}
        /\ pltClient' = None
        /\ pltClosed' = pltClosed \cup Dropped(None)
        /\ UNCHANGED <<pltChainId, pltHeight, pltIsConnected, pltError, pltMade, listVars,
                       balVars, cryptoVars, formVars, appVars, chainVars, sessionVars>>

\* the awaits of a connect() call end.  A client exists once
\* StargateClient.connect has resolved; the catch branch disconnects it, or
\* else the client the call was created with.
connectEnds(call, outcome, detectedChainId, currentHeight) ==
    /\ call \in pltCalls
    /\ call.awaits = "connect"
    /\ pltCalls' = pltCalls \ {call}
    /\ IF outcome.at = "none"
       THEN /\ pltMade' = pltMade + 1
            /\ pltClient' = Some(pltMade + 1)
            /\ pltChainId' = Some(detectedChainId)
            /\ pltHeight' = currentHeight
            /\ pltIsConnected' = TRUE
            /\ pltClosed' = pltClosed \cup Dropped(Some(pltMade + 1))
            /\ UNCHANGED pltError
       ELSE \E caught \in {catchState(call, outcome.thrown)} :
               /\ pltMade' = IF outcome.at = "connect" THEN pltMade ELSE pltMade + 1
               /\ pltClosed' = pltClosed \cup Dropped(caught.client)
                                  \cup (IF outcome.at # "connect" THEN {pltMade + 1}
                                        ELSE IF call.client # None THEN {Get(call.client)}
                                        ELSE {})
               /\ pltClient' = caught.client
               /\ pltChainId' = caught.chainId
               /\ pltHeight' = caught.height
               /\ pltIsConnected' = caught.isConnected
               /\ pltError' = caught.error
    /\ UNCHANGED <<listVars, balVars, cryptoVars, formVars, appVars, chainVars, sessionVars>>

connectSettlesPlt ==
    \E call \in pltCalls, outcome \in PltOutcomes, detectedChainId \in DetectedChainIds,
       currentHeight \in Heights :
        connectEnds(call, outcome, detectedChainId, currentHeight)

\* disconnect() of the hook
disconnect ==
    \E initialChainId \in InitialChainIds :
        /\ pltClient # None \/ pltError # None \/ pltChainId # initialChainId
        /\ pltClosed' = pltClosed \cup Dropped(None)
        /\ pltClient' = None
        /\ pltChainId' = initialChainId
        /\ pltIsConnected' = FALSE
        /\ pltHeight' = 0
        /\ pltError' = None
        /\ UNCHANGED <<pltCalls, pltMade, listVars, balVars, cryptoVars, formVars, appVars, chainVars, sessionVars>>

NextPlt == connect \/ connectDrops \/ connectSettlesPlt \/ disconnect

SpecPlt == Init /\ [][NextPlt]_vars

(***************************************************************************)
(* hooks/useBalances.ts                                                    *)
(***************************************************************************)
MaxFetches == 3

BECH32_PREFIX == <<112, 108, 116>>                  \* 'plt'
Plt1Test == BECH32_PREFIX \o <<49, 116, 101, 115, 116>>          \* 'plt1test'
Cosmos1Bad == <<99, 111, 115, 109, 111, 115, 49, 98, 97, 100>>   \* 'cosmos1bad'

\* what the caller may pass as the address
BalanceAddresses ==
    {<<>>, <<32, 32>>, Cosmos1Bad, BECH32_PREFIX, <<32>> \o Plt1Test \o <<32>>, Plt1Test,
     BECH32_PREFIX \o <<49>>}

DenomUatom == <<117, 97, 116, 111, 109>>            \* 'uatom'
DenomUplt == <<117, 112, 108, 116>>                 \* 'uplt'

\* what client.getAllBalances may resolve with
CoinLists ==
    {<<>>,
     <<[denom |-> DenomUplt, amount |-> 7]>>,
     <<[denom |-> DenomUplt, amount |-> 10], [denom |-> DenomUatom, amount |-> 5]>>}

\* a.localeCompare(b) < 0 for lower-case ASCII texts
RECURSIVE DenomBefore(_, _)
DenomBefore(a, b) ==
    IF Len(b) = 0 THEN FALSE
    ELSE IF Len(a) = 0 THEN TRUE
    ELSE IF a[1] # b[1] THEN a[1] < b[1]
    ELSE DenomBefore(Tail(a), Tail(b))

\* [...coins].sort((a, b) => a.denom.localeCompare(b.denom))
RECURSIVE SortCoins(_)
SortCoins(coins) ==
    IF Len(coins) <= 1 THEN coins
    ELSE LET first == CHOOSE i \in 1..Len(coins) :
                          \A j \in 1..Len(coins) :
                              j # i => \/ DenomBefore(coins[i].denom, coins[j].denom)
                                       \/ (coins[i].denom = coins[j].denom /\ i < j)
         IN <<coins[first]>> \o
            SortCoins([k \in 1..(Len(coins) - 1) |-> IF k < first THEN coins[k] ELSE coins[k + 1]])

ErrorRequired == "La direccion es obligatoria."
ErrorPrefix == "La direccion debe comenzar con plt1."
ErrorNoClient == "Conectate a un RPC primero."

\* a check that accepts any non-empty address
fetchCheck_anyPrefix(trimmed, hasClient) ==
    IF trimmed = <<>> THEN Some(ErrorRequired)
    ELSE IF ~hasClient THEN Some(ErrorNoClient)
    ELSE None

\* the three early returns of fetchBalances: the error set, if any
fetchCheck(trimmed, hasClient) ==
    IF trimmed = <<>> THEN Some(ErrorRequired)
    ELSE IF ~IsPrefix(BECH32_PREFIX \o <<49>>, trimmed) THEN Some(ErrorPrefix)
    ELSE IF ~hasClient THEN Some(ErrorNoClient)
    ELSE None

\* the component is rendered with another client prop
setBalClient ==
    /\ balClient' = ~balClient
    /\ UNCHANGED <<loading, balances, balError, fetches, getAllCalls, lastAddress, listVars,
                   pltVars, cryptoVars, formVars, appVars, chainVars, sessionVars>>

\* fetchBalances(address) up to `await client.getAllBalances(trimmed)`
fetchFor(address) ==
    /\ \E failed \in {fetchCheck(Trim(address), balClient)} :
          IF failed # None
          THEN /\ balError' = failed
               /\ balances' = <<>>
               /\ UNCHANGED <<loading, fetches, getAllCalls>>
          ELSE /\ getAllCalls < MaxFetches
               /\ loading' = TRUE
               /\ balError' = None
               /\ fetches' = Append(fetches, Trim(address))
               /\ getAllCalls' = getAllCalls + 1
               /\ UNCHANGED balances
    /\ UNCHANGED <<balClient, lastAddress, listVars, pltVars, cryptoVars, formVars, appVars, chainVars, sessionVars>>

fetchBalances == \E address \in BalanceAddresses : fetchFor(address)

\* the message the catch branch of fetchBalances reports
fetchErrorMessage(thrown) ==
    IF thrown.isError THEN thrown.message ELSE "No se pudieron obtener los balances."

\* what the pending calls are once the call at position `call` has returned
WithoutCall(call) ==
    [k \in 1..(Len(fetches) - 1) |-> IF k < call THEN fetches[k] ELSE fetches[k + 1]]

\* the client.getAllBalances call of the pending fetch `call` settles: the
\* balances are set sorted and the address is stored, or the catch branch
\* reports the failure; finally loading is lowered
fetchEnds(call, ok, coins, thrown) ==
    /\ call \in 1..Len(fetches)
    /\ fetches' = WithoutCall(call)
    /\ IF ok
       THEN /\ balances' = SortCoins(coins)
            /\ lastAddress' = Some(fetches[call])
            /\ UNCHANGED balError
       ELSE /\ balError' = Some(fetchErrorMessage(thrown))
            /\ balances' = <<>>
            /\ UNCHANGED lastAddress
    /\ loading' = FALSE
    /\ UNCHANGED <<balClient, getAllCalls, listVars, pltVars, cryptoVars, formVars, appVars, chainVars, sessionVars>>

fetchSettles ==
    \E call \in 1..MaxFetches, ok \in BOOLEAN, coins \in CoinLists, thrown \in ThrownValues :
        fetchEnds(call, ok, coins, thrown)

\* getStoredAddress(): the item, or '' when there is none
getStoredAddress == IF lastAddress = None THEN <<>> ELSE Get(lastAddress)

NextBalances == setBalClient \/ fetchBalances \/ fetchSettles

SpecBalances == Init /\ [][NextBalances]_vars

(***************************************************************************)
(* lib/chain.ts                                                            *)
(***************************************************************************)
ZERO == 48          \* '0'
MINUS == 45         \* '-'
DOT == 46           \* '.'

IsDigit(c) == c >= 48 /\ c <= 57

\* str.padStart(n, '0') and str.padEnd(n, '0')
padStart(str, n) == IF Len(str) >= n THEN str ELSE [k \in 1..(n - Len(str)) |-> ZERO] \o str
padEnd(str, n) == IF Len(str) >= n THEN str ELSE str \o [k \in 1..(n - Len(str)) |-> ZERO]

\* str.slice(0, -n) and str.slice(-n), for n > 0
sliceBefore(str, n) == SubSeq(str, 1, Len(str) - n)
sliceLast(str, n) == IF Len(str) <= n THEN str ELSE SubSeq(str, Len(str) - n + 1, Len(str))

\* the number of leading '0' characters of str
RECURSIVE LeadingZeros(_)
LeadingZeros(str) ==
    IF Len(str) = 0 \/ str[1] # ZERO THEN 0 ELSE 1 + LeadingZeros(Tail(str))

\* str.replace(/^0+(?=\d)/, ''): the longest run of leading zeros that is
\* followed by a digit is dropped
stripZeros(str) ==
    LET run == LeadingZeros(str)
        dropped == IF run = 0 THEN 0
                   ELSE IF run < Len(str) /\ IsDigit(str[run + 1]) THEN run
                   ELSE run - 1
    IN SubSeq(str, dropped + 1, Len(str))

\* `x || '0'`
orZero(str) == IF str = <<>> THEN <<ZERO>> ELSE str

\* formatAmount without the padStart of line 21
formatAmount_unpadded(amount, decimals) ==
    IF amount = <<>> THEN <<ZERO>>
    ELSE IF decimals <= 0 THEN amount
    ELSE LET negative == amount[1] = MINUS
             digits == IF negative THEN Tail(amount) ELSE amount
             integerPart == orZero(sliceBefore(digits, decimals))
             fractionalPart == padEnd(sliceLast(digits, decimals), decimals)
             result == orZero(stripZeros(integerPart)) \o <<DOT>> \o fractionalPart
         IN IF negative THEN <<MINUS>> \o result ELSE result

formatAmount(amount, decimals) ==
    IF amount = <<>> THEN <<ZERO>>
    ELSE IF decimals <= 0 THEN amount
    ELSE LET negative == amount[1] = MINUS
             digits == IF negative THEN Tail(amount) ELSE amount
             padded == padStart(digits, decimals + 1)
             integerPart == orZero(sliceBefore(padded, decimals))
             fractionalPart == padEnd(sliceLast(padded, decimals), decimals)
             normalizedInteger == orZero(stripZeros(integerPart))
             result == normalizedInteger \o <<DOT>> \o fractionalPart
         IN IF negative THEN <<MINUS>> \o result ELSE result

\* the digit strings formatAmount is called with, unsigned
FormatDigits ==
    {<<>>, <<48>>, <<55>>, <<52, 50>>, <<49, 48>>, <<48, 48, 55>>, <<48, 48, 48>>,
     <<49, 48, 48>>, <<49, 50, 51>>, <<48, 49, 50, 48>>, <<49, 50, 51, 52, 53, 54, 55>>}

\* the same, and each with a leading '-'
FormatAmounts == FormatDigits \cup {<<MINUS>> \o digits : digits \in FormatDigits}

FormatDecimals == {-1, 0, 1, 2, 3, 6, 7}

\* a caller formats an amount
callFormatAmount ==
    \E amount \in FormatAmounts, decimals \in FormatDecimals :
        /\ formatCall' = Some([amount |-> amount, decimals |-> decimals])
        /\ formatted' = formatAmount(amount, decimals)
        /\ UNCHANGED <<listVars, pltVars, balVars, cryptoVars, formVars, appVars, sessionVars>>

NextChain == callFormatAmount

SpecChain == Init /\ [][NextChain]_vars

\* ---------------------------------------------------------------------------
\* App.tsx, multi-wallet variant (specification SpecSession): the connection,
\* the wallets of the session, the signing client and the balance. Left out:
\* the three messages, chainId, height, theme, the panel and modal flags, the
\* fields of the wallet generator and activatingWalletAddress, which no handler
\* reads to decide what it does. A stored record is known by its address. The
\* user invokes at most MaxSessionCalls handlers; the calls they start settle
\* in any order.
\* ---------------------------------------------------------------------------

MaxSessionCalls == 4

OtherRpc == <<104, 116, 116, 112, 58, 47, 47, 98>>                   \* 'http://b'

\* what the user may type in the two fields of ConnectView
RpcUrlInputs == {RPC_ENDPOINT, OtherRpc \o <<32>>}
ExpectedChainIdInputs == {CHAIN_ID, <<32>> \o OtherChainId}

\* rpcUrl.trim() || DEFAULT_CHAIN.rpcUrl
trimmedRpc(url) == IF Trim(url) = <<>> THEN RPC_ENDPOINT ELSE Trim(url)

\* the chain id the node at an address answers to getChainId()
RemoteChainOf(rpc) == IF rpc = RPC_ENDPOINT THEN CHAIN_ID ELSE OtherChainId

\* the amount the chain holds for an address, as getBalance reports it
ChainAmount(address) == IF address = "plt1a" THEN 5 ELSE 7

\* the address of the wallet generateNewMnemonicWallet returns
GeneratedAddress == "plt1b"

Wallet(address, name) == [address |-> address, name |-> name]

\* a handler call suspended at an await, with what its closures captured when
\* the handler was invoked: the signing client and the query client of that
\* render and the two fields of ConnectView, trimmed
SessionCall(op, awaits, wallet, persist) ==
    [op |-> op, awaits |-> awaits, wallet |-> wallet, persist |-> persist,
     signingClient |-> session.signingClient,
     rpc |-> trimmedRpc(session.rpcUrl),
     chainId |-> trimmedChainId(session.expectedChainId)]

\* a refreshBalance call awaiting getBalance, with the client and the wallet
\* of the render it was created in
RefreshCall(clientId, wallet) ==
    [op |-> "refresh", awaits |-> "getBalance", wallet |-> Some(wallet),
     persist |-> FALSE, signingClient |-> Some(clientId),
     rpc |-> <<>>, chainId |-> <<>>]

\* a client that connect / connectWithSigner returned
NewClient(kind, call, address, closed) ==
    [kind |-> kind, rpc |-> call.rpc, chainId |-> call.chainId,
     signer |-> address, closed |-> closed]

\* disconnect() called on clients
Closing(ids) ==
    [i \in DOMAIN sessionClients |->
        IF i \in ids THEN [sessionClients[i] EXCEPT !.closed = TRUE] ELSE sessionClients[i]]

OptIds(o) == IF o = None THEN {} ELSE {Get(o)}

sessionIsConnected == session.queryClient # None

\* const canSend = Boolean(activeWallet && signingClient && !isWalletActivationPending)
canSend ==
    /\ session.activeWallet # None
    /\ session.signingClient # None
    /\ ~session.isWalletActivationPending

SessionUnchanged == UNCHANGED <<cryptoVars, formVars, appVars, listVars, pltVars, balVars, chainVars>>

\* useEffect(() => { refreshBalance() }, [refreshBalance]): runs after a render
\* in which signingClient or activeWallet differ from the previous one, and
\* starts a getBalance when both are held
RefreshEffect(before, after) ==
    IF /\ <<before.signingClient, before.activeWallet>> # <<after.signingClient, after.activeWallet>>
       /\ after.signingClient # None /\ after.activeWallet # None
    THEN {RefreshCall(Get(after.signingClient), Get(after.activeWallet))}
    ELSE {}

\* the state after a render, with isRefreshingBalance set by the effect
Rendered(before, after) ==
    IF RefreshEffect(before, after) = {} THEN after
    ELSE [after EXCEPT !.isRefreshingBalance = TRUE]

\* onRpcUrlChange / onExpectedChainIdChange; the inputs are never disabled
setRpcUrl ==
    \E url \in RpcUrlInputs :
        /\ session.rpcUrl # url
        /\ sessionStarted < MaxSessionCalls
        /\ session' = [session EXCEPT !.rpcUrl = url]
        /\ sessionStarted' = sessionStarted + 1
        /\ UNCHANGED <<sessionCalls, sessionClients>>
        /\ SessionUnchanged

setExpectedChainId ==
    \E id \in ExpectedChainIdInputs :
        /\ session.expectedChainId # id
        /\ sessionStarted < MaxSessionCalls
        /\ session' = [session EXCEPT !.expectedChainId = id]
        /\ sessionStarted' = sessionStarted + 1
        /\ UNCHANGED <<sessionCalls, sessionClients>>
        /\ SessionUnchanged

\* handleConnect up to `await StargateClient.connect`; the button is disabled
\* while a query client is held
sessionConnect ==
    /\ ~sessionIsConnected
    /\ sessionStarted < MaxSessionCalls
    /\ UNCHANGED session
    /\ sessionCalls' = sessionCalls \cup {SessionCall("connect", "network", None, FALSE)}
    /\ sessionStarted' = sessionStarted + 1
    /\ UNCHANGED sessionClients
    /\ SessionUnchanged

\* the catch block of handleConnect
connectFailed(call) ==
    /\ session' = [session EXCEPT !.queryClient = None]
    /\ sessionCalls' = sessionCalls \ {call}

\* the rest of handleConnect: connect rejects; or the node reports another
\* chain id, the client is disconnected and the handler throws; or getHeight
\* rejects; or the client is kept. `if (queryClient)` reads the query client
\* of the render the handler was created in, which held none.
sessionConnectEnds(call, reached, height) ==
    /\ call.op = "connect"
    /\ IF ~reached
       THEN /\ connectFailed(call)
            /\ UNCHANGED sessionClients
       ELSE IF RemoteChainOf(call.rpc) # call.chainId
       THEN /\ connectFailed(call)
            /\ sessionClients' = Append(sessionClients, NewClient("query", call, None, TRUE))
       ELSE IF ~height
       THEN /\ connectFailed(call)
            /\ sessionClients' = Append(sessionClients, NewClient("query", call, None, FALSE))
       ELSE /\ sessionClients' = Append(sessionClients, NewClient("query", call, None, FALSE))
            /\ session' = [session EXCEPT !.queryClient = Some(Len(sessionClients) + 1)]
            /\ sessionCalls' = sessionCalls \ {call}
    /\ UNCHANGED sessionStarted
    /\ SessionUnchanged

connectSettlesSession ==
    \E call \in sessionCalls, reached \in BOOLEAN, height \in BOOLEAN :
        sessionConnectEnds(call, reached, height)

Replaced(call, next) == (sessionCalls \ {call}) \cup {next}

\* handleDisconnect up to `await queryClient.disconnect()`; the button is
\* disabled while no query client is held
sessionDisconnect ==
    /\ sessionIsConnected
    /\ sessionStarted < MaxSessionCalls
    /\ sessionClients' = Closing({Get(session.queryClient)})
    /\ sessionCalls' = sessionCalls \cup {SessionCall("disconnect", "query", None, FALSE)}
    /\ sessionStarted' = sessionStarted + 1
    /\ UNCHANGED session
    /\ SessionUnchanged

\* the setters of handleDisconnect after `await disconnectSigningClient()`
disconnectResets(call) ==
    /\ session' = Rendered(session,
            [session EXCEPT !.queryClient = None, !.activeWallet = None,
                            !.wallets = <<>>, !.balance = 0,
                            !.walletBalances = EmptyBalances,
                            !.walletBeingUnlocked = None, !.generatedWallet = None])
    /\ sessionCalls' = (sessionCalls \ {call}) \cup RefreshEffect(session, session')

\* handleDisconnect resumes: disconnectSigningClient() disconnects the signing
\* client of the render the handler was created in and awaits; it sets the
\* state to null and returns; the setters run
disconnectStep(call) ==
    /\ call.op = "disconnect"
    /\ IF call.awaits = "query" /\ call.signingClient # None
       THEN /\ sessionClients' = Closing({Get(call.signingClient)})
            /\ sessionCalls' = Replaced(call, [call EXCEPT !.awaits = "signing"])
            /\ UNCHANGED session
       ELSE IF call.awaits = "signing"
       THEN /\ session' = [session EXCEPT !.signingClient = None]
            /\ sessionCalls' = Replaced(call, [call EXCEPT !.awaits = "return"])
            /\ UNCHANGED sessionClients
       ELSE /\ disconnectResets(call)
            /\ UNCHANGED sessionClients
    /\ UNCHANGED sessionStarted
    /\ SessionUnchanged

disconnectSettles == \E call \in sessionCalls : disconnectStep(call)

\* activateWallet up to its first await: the flag is set and
\* disconnectSigningClient() disconnects the signing client of the render the
\* handler was created in, or there is none and instantiateSigningClient is called
activateWallet(before, call, wallet) ==
    /\ session' = [before EXCEPT !.isWalletActivationPending = TRUE]
    /\ IF call.signingClient # None
       THEN /\ sessionClients' = Closing({Get(call.signingClient)})
            /\ sessionCalls' = Replaced(call, [call EXCEPT !.awaits = "disconnect", !.wallet = Some(wallet)])
       ELSE /\ UNCHANGED sessionClients
            /\ sessionCalls' = Replaced(call, [call EXCEPT !.awaits = "network", !.wallet = Some(wallet)])

\* handleImportWallet up to `await createSignerFrom...`; WalletImportForm is
\* passed disabled={!isConnected || isWalletActivationPending} and
\* loading={isImporting}
sessionImport ==
    \E address \in SessionAddresses, persist \in BOOLEAN :
        /\ sessionIsConnected
        /\ ~session.isWalletActivationPending
        /\ ~session.isImporting
        /\ sessionStarted < MaxSessionCalls
        /\ session' = [session EXCEPT !.isImporting = TRUE]
        /\ sessionCalls' = sessionCalls \cup
                {SessionCall("import", "signer", Some(Wallet(address, None)), persist)}
        /\ sessionStarted' = sessionStarted + 1
        /\ UNCHANGED sessionClients
        /\ SessionUnchanged

\* handleSelectStoredWallet; unlockDisabled of the button
sessionSelectStored ==
    \E address \in Range(session.storedWallets) :
        /\ ~session.isWalletActivationPending
        /\ ~session.isUnlocking
        /\ sessionStarted < MaxSessionCalls
        /\ session' = [session EXCEPT
                !.walletBeingUnlocked =
                    IF session.walletBeingUnlocked = Some(address) THEN None ELSE Some(address)]
        /\ sessionStarted' = sessionStarted + 1
        /\ UNCHANGED <<sessionCalls, sessionClients>>
        /\ SessionUnchanged

\* handleUnlockWallet up to `await decryptSecrets`; StoredWalletUnlock is
\* rendered for the selected record and its button is disabled while isUnlocking
sessionUnlock ==
    /\ session.walletBeingUnlocked # None
    /\ ~session.isUnlocking
    /\ IF ~sessionIsConnected
       THEN UNCHANGED <<session, sessionCalls, sessionStarted>>
       ELSE /\ sessionStarted < MaxSessionCalls
            /\ session' = [session EXCEPT !.isUnlocking = TRUE]
            /\ sessionCalls' = sessionCalls \cup
                    {SessionCall("unlock", "signer",
                                 Some(Wallet(Get(session.walletBeingUnlocked), None)), FALSE)}
            /\ sessionStarted' = sessionStarted + 1
    /\ UNCHANGED sessionClients
    /\ SessionUnchanged

\* handlers whose catch path leaves their flag as it is
handlerCatch_flagKept(before, call) == before

\* the catch and finally blocks of the four handlers that call activateWallet
handlerCatch(before, call) ==
    IF call.op = "import" THEN [before EXCEPT !.isImporting = FALSE]
    ELSE IF call.op = "unlock" THEN [before EXCEPT !.isUnlocking = FALSE]
    ELSE before

\* decryptSecrets / createSignerFrom... settle: the handler throws, or it
\* calls activateWallet
signerEnds(call, ok) ==
    /\ call.op \in {"import", "unlock"}
    /\ call.awaits = "signer"
    /\ IF ok
       THEN activateWallet(session, call, Get(call.wallet))
       ELSE /\ session' = handlerCatch(session, call)
            /\ sessionCalls' = sessionCalls \ {call}
            /\ UNCHANGED sessionClients
    /\ UNCHANGED sessionStarted
    /\ SessionUnchanged

signerSettles == \E call \in sessionCalls, ok \in BOOLEAN : signerEnds(call, ok)

\* handleGenerateWallet, its await included
handleGenerateWallet ==
    /\ session.generatedWallet = None
    /\ sessionStarted < MaxSessionCalls
    /\ session' = [session EXCEPT !.generatedWallet = Some(GeneratedAddress)]
    /\ sessionStarted' = sessionStarted + 1
    /\ UNCHANGED <<sessionCalls, sessionClients>>
    /\ SessionUnchanged

\* handleUseGeneratedWallet; the button is disabled while
\* !isConnected || isWalletActivationPending
handleUseGeneratedWallet ==
    /\ session.generatedWallet # None
    /\ sessionIsConnected
    /\ ~session.isWalletActivationPending
    /\ sessionStarted < MaxSessionCalls
    /\ \E call \in {SessionCall("use", "", None, FALSE)} :
            activateWallet(session, call, Wallet(Get(session.generatedWallet), None))
    /\ sessionStarted' = sessionStarted + 1
    /\ SessionUnchanged

\* handleSelectWallet; the button is shown for the wallets that are not active
\* and is disabled while isWalletActivationPending || !isConnected
handleSelectWallet ==
    \E wallet \in Range(session.wallets) :
        /\ sessionIsConnected
        /\ ~session.isWalletActivationPending
        /\ IF session.activeWallet = None THEN TRUE
           ELSE Get(session.activeWallet).address # wallet.address
        /\ sessionStarted < MaxSessionCalls
        /\ \E call \in {SessionCall("switch", "", None, FALSE)} :
                activateWallet(session, call, wallet)
        /\ sessionStarted' = sessionStarted + 1
        /\ SessionUnchanged

\* disconnectSigningClient resumes after `await signingClient.disconnect()`:
\* setSigningClient(null), and activateWallet calls instantiateSigningClient
activationDrops ==
    \E call \in sessionCalls :
        /\ call.awaits = "disconnect"
        /\ session' = [session EXCEPT !.signingClient = None]
        /\ sessionCalls' = Replaced(call, [call EXCEPT !.awaits = "network"])
        /\ UNCHANGED <<sessionClients, sessionStarted>>
        /\ SessionUnchanged

\* setWallets of activateWallet: the wallet goes first, its former entry removed
WalletFirst(list, wallet) ==
    <<wallet>> \o SelectSeq(list, LAMBDA item : item.address # wallet.address)

\* an activateWallet that keeps the wallet already active, if there is one
activated_keepsActive(before, wallet, clientId) ==
    [before EXCEPT !.signingClient = Some(clientId),
                   !.activeWallet = IF @ = None THEN Some(wallet) ELSE @,
                   !.balance = ChainAmount(wallet.address),
                   !.walletBalances[wallet.address] = Some(ChainAmount(wallet.address)),
                   !.wallets = WalletFirst(before.wallets, wallet),
                   !.isWalletActivationPending = FALSE]

\* the setters of activateWallet after getBalance resolved, and its finally block
activated(before, wallet, clientId) ==
    [before EXCEPT !.signingClient = Some(clientId),
                   !.activeWallet = Some(wallet),
                   !.balance = ChainAmount(wallet.address),
                   !.walletBalances[wallet.address] = Some(ChainAmount(wallet.address)),
                   !.wallets = WalletFirst(before.wallets, wallet),
                   !.isWalletActivationPending = FALSE]

\* what the handler does after `await activateWallet(...)` returned, up to its
\* next await or its end
afterActivation(before, call) ==
    IF call.op = "import"
    THEN IF call.persist THEN before ELSE [before EXCEPT !.isImporting = FALSE]
    ELSE IF call.op = "unlock"
    THEN [before EXCEPT !.walletBeingUnlocked = None, !.isUnlocking = FALSE]
    ELSE before

\* activateWallet resumes after instantiateSigningClient and getBalance:
\* connectWithSigner rejects; or the node reports another chain id than the
\* one expected and the client is disconnected; or getBalance rejects and the
\* client is disconnected; or the state is set. The finally block clears the
\* flag on every path.
activationEnds(call, reached, fetched) ==
    /\ call.awaits = "network"
    /\ call.op \in {"import", "unlock", "use", "switch"}
    /\ \E wallet \in {Get(call.wallet)}, failed \in {[session EXCEPT !.isWalletActivationPending = FALSE]} :
        IF ~reached
        THEN /\ session' = handlerCatch(failed, call)
             /\ sessionCalls' = sessionCalls \ {call}
             /\ UNCHANGED sessionClients
        ELSE IF RemoteChainOf(call.rpc) # call.chainId
        THEN /\ session' = handlerCatch(failed, call)
             /\ sessionCalls' = sessionCalls \ {call}
             /\ sessionClients' = Append(sessionClients, NewClient("signing", call, Some(wallet.address), TRUE))
        ELSE IF ~fetched
        THEN /\ session' = handlerCatch(failed, call)
             /\ sessionCalls' = sessionCalls \ {call}
             /\ sessionClients' = Append(sessionClients, NewClient("signing", call, Some(wallet.address), TRUE))
        ELSE /\ sessionClients' = Append(sessionClients, NewClient("signing", call, Some(wallet.address), FALSE))
             /\ \E after \in {afterActivation(activated(session, wallet, Len(sessionClients) + 1), call)} :
                    /\ session' = Rendered(session, after)
                    /\ sessionCalls' =
                            (IF call.op = "import" /\ call.persist
                             THEN Replaced(call, [call EXCEPT !.awaits = "encrypt"])
                             ELSE sessionCalls \ {call})
                            \cup RefreshEffect(session, after)
    /\ UNCHANGED sessionStarted
    /\ SessionUnchanged

activationSettles ==
    \E call \in sessionCalls, reached \in BOOLEAN, fetched \in BOOLEAN :
        activationEnds(call, reached, fetched)

\* setStoredWallets of handleImportWallet: the record replaces the one of the
\* same address or is appended
StoredWith(list, address) == IF address \in Range(list) THEN list ELSE Append(list, address)

\* handleImportWallet resumes after `await encryptSecrets`
encryptEnds(call, ok) ==
    /\ call.awaits = "encrypt"
    /\ session' =
            IF ok
            THEN [session EXCEPT !.storedWallets = StoredWith(@, Get(call.wallet).address),
                                 !.isImporting = FALSE]
            ELSE handlerCatch(session, call)
    /\ sessionCalls' = sessionCalls \ {call}
    /\ UNCHANGED <<sessionClients, sessionStarted>>
    /\ SessionUnchanged

encryptSettles == \E call \in sessionCalls, ok \in BOOLEAN : encryptEnds(call, ok)

\* handleRenameSessionWallet; the button is disabled while isWalletActivationPending
renameSessionWallet(address, answer) ==
    /\ ~session.isWalletActivationPending
    /\ sessionStarted < MaxSessionCalls
    /\ \E target \in {w \in Range(session.wallets) : w.address = address} :
       \E normalized \in {IF Trim(Get(answer)) = <<>> THEN None ELSE Some(Trim(Get(answer)))} :
            /\ target.name # normalized
            /\ \E after \in {[session EXCEPT
                    !.wallets = [i \in DOMAIN @ |->
                        IF @[i].address = address THEN Wallet(address, normalized) ELSE @[i]],
                    !.activeWallet =
                        IF @ # None /\ Get(@).address = address
                        THEN Some(Wallet(address, normalized)) ELSE @]} :
                    /\ RefreshEffect(session, after) \cap sessionCalls = {}
                    /\ session' = Rendered(session, after)
                    /\ sessionCalls' = sessionCalls \cup RefreshEffect(session, after)
    /\ sessionStarted' = sessionStarted + 1
    /\ UNCHANGED sessionClients
    /\ SessionUnchanged

\* what the user enters in window.prompt
SessionPromptAnswers == {Some(<<32>>), Some(<<32>> \o NameAb)}

handleRenameSessionWallet ==
    \E address \in SessionAddresses, answer \in SessionPromptAnswers :
        renameSessionWallet(address, answer)

\* handleManualRefreshBalance up to `await signingClient.getBalance`; the
\* button is disabled while isRefreshingBalance
handleManualRefreshBalance ==
    /\ ~session.isRefreshingBalance
    /\ sessionStarted < MaxSessionCalls
    /\ session.signingClient # None
    /\ session.activeWallet # None
    /\ \E call \in {RefreshCall(Get(session.signingClient), Get(session.activeWallet))} :
            /\ call \notin sessionCalls
            /\ sessionCalls' = sessionCalls \cup {call}
    /\ session' = [session EXCEPT !.isRefreshingBalance = TRUE]
    /\ sessionStarted' = sessionStarted + 1
    /\ UNCHANGED sessionClients
    /\ SessionUnchanged

\* refreshBalance resumes after getBalance: it sets the balance of the wallet
\* of the render it was created in, or the error; the finally block clears the flag
refreshEnds(call, ok) ==
    /\ call.op = "refresh"
    /\ \E address \in {Get(call.wallet).address} :
        session' =
            IF ok
            THEN [session EXCEPT !.balance = ChainAmount(address),
                                 !.walletBalances[address] = Some(ChainAmount(address)),
                                 !.isRefreshingBalance = FALSE]
            ELSE [session EXCEPT !.isRefreshingBalance = FALSE]
    /\ sessionCalls' = sessionCalls \ {call}
    /\ UNCHANGED <<sessionClients, sessionStarted>>
    /\ SessionUnchanged

balanceRefreshSettles == \E call \in sessionCalls, ok \in BOOLEAN : refreshEnds(call, ok)

NextSession ==
    \/ setRpcUrl \/ setExpectedChainId
    \/ sessionConnect \/ connectSettlesSession
    \/ sessionDisconnect \/ disconnectSettles
    \/ sessionImport \/ sessionSelectStored \/ sessionUnlock \/ signerSettles
    \/ handleGenerateWallet \/ handleUseGeneratedWallet \/ handleSelectWallet
    \/ activationDrops \/ activationSettles \/ encryptSettles
    \/ handleRenameSessionWallet \/ handleManualRefreshBalance \/ balanceRefreshSettles

SpecSession == Init /\ [][NextSession]_vars

\* ---------------------------------------------------------------------------
\* The busy flags (specification SpecBusy). The multi-wallet App, the send form
\* and useBalances are followed together. They share no state, so each one is
\* followed from its start while the other two have not been used. Every
\* awaited call settles: the steps that resume a handler are weakly fair.
\* ---------------------------------------------------------------------------

FormAtStart ==
    formVars = <<<<>>, <<>>, <<>>, None, FALSE, None, FALSE, 0, TRUE, FeeBase + 2, None,
                 [sendTokens |-> 0, refresh |-> 0]>>

BalancesAtStart == balVars = <<FALSE, FALSE, <<>>, None, <<>>, 0, None>>

SessionAtStart == sessionVars = <<SessionInit, {}, <<>>, 0>>

\* an awaited call of the App settles and its handler resumes
SessionSettles ==
    \/ connectSettlesSession \/ disconnectSettles \/ signerSettles
    \/ activationDrops \/ activationSettles \/ encryptSettles \/ balanceRefreshSettles

\* an awaited call of a send form settles and handleSend resumes
FormSettles == sendTokensSettles \/ refreshSettles \/ orphanSendSettles \/ orphanSettles

NextBusy ==
    \/ FormAtStart /\ BalancesAtStart /\ NextSession
    \/ SessionAtStart /\ BalancesAtStart /\ NextForm
    \/ SessionAtStart /\ FormAtStart /\ NextBalances

\* an awaited call settles and its handler resumes
Settles == SessionSettles \/ FormSettles \/ fetchSettles

SpecBusy == Init /\ [][NextBusy]_vars /\ WF_vars(Settles)


\* every text the user may enter as a credential, as typed and as kept
SecretTexts ==
    UNION { {payload.text, Trim(payload.text)} \cup
            (LET made == createSigner(payload.type, payload.text)
             IN IF ~made.ok THEN {}
                ELSE {IF made.type = "mnemonic" THEN made.secrets.mnemonic
                      ELSE made.secrets.privateKeyHex}) : payload \in ImportPayloads }

C5_DisconnectedStaysClean == disconnected => activeWallet = None /\ signingClient = None

\* the unlock in flight uses another password than the stored record was encrypted with
WrongPasswordUnlock ==
    /\ IsSome(unlockTask)
    /\ Get(unlockTask).pc = "decrypt"
    /\ IsSome(lastPersist)
    /\ Get(unlockTask).storedWallet = Get(lastPersist).record
    /\ Get(unlockTask).password # Get(lastPersist).password

\* C6: an unlock with a password other than the one the record was encrypted
\* with ends with unlockError set, and leaves the active wallet, the signing
\* client, the balance and the stored record as they were.
C6_WrongPasswordRejected ==
    [][/\ handleUnlockWallet =>
             UNCHANGED <<activeWallet, signingClient, balance, storedWallet, localStorage>>
       /\ (WrongPasswordUnlock /\ unlockDecrypted) =>
             /\ unlockError' = Some("decrypt")
             /\ unlockTask' = None
             /\ UNCHANGED <<activeWallet, signingClient, balance, storedWallet, localStorage>>]_vars

C6_Witness ==
    /\ unlockError = Some("decrypt")
    /\ IsSome(lastPersist)
    /\ storedWallet = Some(Get(lastPersist).record)
    /\ unlockTask = None

\* the unlock in flight uses the password the stored record was encrypted with
SamePasswordUnlock ==
    /\ IsSome(unlockTask)
    /\ Get(unlockTask).pc = "decrypt"
    /\ IsSome(lastPersist)
    /\ Get(unlockTask).storedWallet = Get(lastPersist).record
    /\ Get(unlockTask).password = Get(lastPersist).password

\* C8: after a reload the stored wallet read back equals the record saved by
\* the import; an unlock with the password of the import opens it, and the
\* wallet it activates has the address derived at import.
C8_ReloadRoundTrip ==
    [][/\ (Reload /\ IsSome(lastPersist)) => storedWallet' = Some(Get(lastPersist).record)
       /\ (SamePasswordUnlock /\ unlockDecrypted) =>
             /\ IsSome(unlockTask')
             /\ Get(unlockTask').pc = "network"
       /\ (unlockNetworkSettles /\ unlockError' = None) =>
             /\ IsSome(activeWallet')
             /\ Get(activeWallet').address = Get(unlockTask).storedWallet.address]_vars

C8_Witness ==
    /\ IsSome(lastPersist)
    /\ Get(lastPersist).reloaded
    /\ importTask = None
    /\ IsSome(activeWallet)
    /\ Get(activeWallet).address = Get(lastPersist).record.address
    /\ Get(lastPersist).record.type = "mnemonic"

\* C10: the stored record is removed or replaced only by the forget action or
\* by a save of a record with the same address.
C10_RecordKept ==
    [][(IsSome(localStorage) /\ localStorage' # localStorage) =>
          \/ handleForgetWallet
          \/ /\ importEncrypted
             /\ Get(ReadStored(localStorage')).address
                   = Get(ReadStored(localStorage)).address]_vars

\* an import, or an unlock, ends in its catch branch in this step
ImportFails ==
    /\ importNetworkSettles \/ importEncrypted
    /\ importTask' = None
    /\ errorMessage' # None

UnlockFails ==
    /\ unlockDecrypted \/ unlockNetworkSettles
    /\ unlockTask' = None
    /\ unlockError' # None

\* C11: an import or unlock that ends by reporting an error has left the
\* active wallet, the signing client and the balance as they were when it
\* started: none of its steps changed them.
C11_FailureLeavesSession ==
    [][/\ ImportFails =>
             /\ ~Get(importTask).changed
             /\ UNCHANGED <<activeWallet, signingClient, balance>>
       /\ UnlockFails =>
             /\ ~Get(unlockTask).changed
             /\ UNCHANGED <<activeWallet, signingClient, balance>>]_vars

\* credentials that are no bip39 phrase and no 64-digit hex key
InvalidPayloads == {payload \in ImportPayloads : payload.text \in {BadMnemonic, BadPrivKey}}

\* C12: submitting an invalid mnemonic or private key reports an error and
\* changes neither the active wallet, the signing client, the balance nor the
\* stored record; no client is opened or closed, no random bytes are drawn for
\* an encryption, nothing is written and no call is left pending.
C12_InvalidImportIsInert ==
    [][\A payload \in InvalidPayloads :
          submitImport(payload) =>
             /\ errorMessage' = Some("invalidCredential")
             /\ UNCHANGED <<activeWallet, signingClient, balance, localStorage, storedWallet,
                            queryClient, connecting, rngDraws, importTask, unlockTask,
                            isImporting>>]_vars

C12_Witness ==
    /\ errorMessage = Some("invalidCredential")
    /\ IsSome(localStorage)
    /\ IsSome(storedWallet)
    /\ isConnected

\* the last send of the mounted form ended in failure and neither a passing
\* prepare nor a reset has cleared its error since
SendFailed ==
    /\ ~isSending
    /\ error \in {Some(sendErrorText(outcome)) : outcome \in {o \in SendOutcomes : o.kind # "ok"}}

\* C13: once a send has ended, client.sendTokens is not called again before
\* a new prepare has passed.
C13_NoResendWithoutPrepare == [][SendCalled => ~SendFailed]_vars

\* the length checks of the stored record's iv and salt
IvSaltWellFormed(record) ==
    /\ Len(base64ToBuffer(record.iv)) = IV_LENGTH
    /\ Len(base64ToBuffer(record.salt)) = SALT_LENGTH

\* C14: a stored record whose iv does not decode to 12 bytes or whose salt
\* does not decode to 16 bytes is never offered as the stored wallet
C14_MalformedRecordNotOffered ==
    IsSome(storedWallet) => IvSaltWellFormed(Get(storedWallet))

\* the stored values that are missing, empty or not parseable as JSON
Unparseable == {None, Some(<<>>), Some(GarbageText), Some(TruncatedText)}

\* C15: when the value under the storage key is missing, empty or not
\* parseable, the mount effect finds no stored wallet and no unlock is offered
C15_UnparseableIsAbsence ==
    [][(Open \/ Reload) /\ localStorage' \in Unparseable
          => storedWallet' = None /\ ~UnlockEnabled']_vars

C15_Witness ==
    /\ localStorage = Some(TruncatedText)
    /\ storedWallet = None
    /\ isConnected


\* the client held, if any, reported the chain id that was expected of it
OnExpectedChain(held) == held = None \/ Get(held).remote = Get(held).expected

\* the replies in which the client obtained reports a chain id other than
\* the one typed as expected
WrongChainReplies ==
    {reply \in [remote : RemoteChainIds, input : ChainIdInputs] :
        reply.remote # trimmedChainId(reply.input)}

\* C16: a client that reports a chain id other than the expected one is
\* disconnected, never becomes the query client or the signing client,
\* activates no wallet, and the connect, import or unlock that obtained it
\* ends with an error and starts no further attempt
C16_WrongChainRejected ==
    [][/\ OnExpectedChain(queryChain') /\ OnExpectedChain(signingChain')
       /\ connecting' < connecting =>
            \A reply \in WrongChainReplies :
               connectReplies(TRUE, reply.remote, reply.input) =>
                  /\ Get(connectChecked(TRUE, reply.remote,
                                        trimmedChainId(reply.input)).client).closed
                  /\ connectionError' # None
                  /\ ~queryClient'
                  /\ connecting' = connecting - 1
                  /\ UNCHANGED <<activeWallet, signingClient, importTask, unlockTask>>
       /\ IsSome(importTask) /\ importTask' = None =>
            \A reply \in WrongChainReplies :
               importNetworkReplies(TRUE, reply.remote, reply.input, 0) =>
                  /\ Get(instantiateSigningClient(TRUE, reply.remote,
                                                  trimmedChainId(reply.input)).client).closed
                  /\ errorMessage' # None
                  /\ ~isImporting'
                  /\ UNCHANGED <<activeWallet, signingClient, queryClient, connecting,
                                 unlockTask>>
       /\ IsSome(unlockTask) /\ unlockTask' = None =>
            \A reply \in WrongChainReplies :
               unlockNetworkReplies(TRUE, reply.remote, reply.input, 0) =>
                  /\ Get(instantiateSigningClient(TRUE, reply.remote,
                                                  trimmedChainId(reply.input)).client).closed
                  /\ unlockError' # None
                  /\ ~isUnlocking'
                  /\ UNCHANGED <<activeWallet, signingClient, queryClient, connecting,
                                 importTask>>]_vars

C16_Witness ==
    /\ errorMessage = Some("chainId")
    /\ isConnected
    /\ signingClient = None
    /\ importTask = None

\* the outcomes in which the chain answers with a non-zero result code
ChainRejections == {outcome \in SendOutcomes : outcome.kind = "chainCode"}

\* the outcomes in which the RPC call throws
Thrown == {outcome \in SendOutcomes : outcome.kind \in {"thrownCode", "thrownError", "thrownOther"}}

\* C17: the error reported when the chain returns a non-zero result code is
\* never the error reported for a thrown value, whatever was thrown
C17_ThrownDistinctFromRejected ==
    [][\A rejected \in ChainRejections :
          sendTokensReplies(rejected) =>
             \A thrown \in Thrown : error' # Some(sendErrorText(thrown))]_vars

\* two records agree on everything but the name
SameButName(before, after) ==
    \A field \in {"address", "type", "ciphertext", "iv", "salt"} : before[field] = after[field]

\* C18: a rename changes only the name of the record listed under the
\* address, in the list and in the record handed to persistWallet; every
\* other record of the list stays as it was
C18_RenameTouchesOnlyName ==
    [][\A address \in StoredAddresses, answer \in PromptAnswers :
          renameStored(address, answer) =>
             /\ Len(storedWallets') = Len(storedWallets)
             /\ \A i \in 1..Len(storedWallets) :
                   IF storedWallets[i].address = address
                   THEN /\ SameButName(storedWallets[i], storedWallets'[i])
                        /\ storedWallets'[i].name = NormalizedName(Get(answer))
                   ELSE storedWallets'[i] = storedWallets[i]
             /\ persisted' # None
             /\ SameButName(FindStored(address), Get(persisted'))
             /\ Get(persisted').name = NormalizedName(Get(answer))]_vars

C18_Witness ==
    /\ Len(storedWallets) = 2
    /\ persisted # None
    /\ Get(persisted).name = Some(NameAb)
    /\ Get(persisted).ciphertext = "c2"
    /\ storedWallets[2] = Get(persisted)
    /\ storedWallets[1].name = Some(NameMain)

\* C19: when a connect() call of usePlt fails, the hook holds no client, is
\* not connected, shows height 0, the initial chain id (or none) and the
\* failure message, and the client the call found has been disconnected
C19_FailedConnectResets ==
    [][\A call \in pltCalls, outcome \in PltFailures, detectedChainId \in DetectedChainIds,
          currentHeight \in Heights :
          connectEnds(call, outcome, detectedChainId, currentHeight) =>
             /\ pltClient' = None
             /\ ~pltIsConnected'
             /\ pltHeight' = 0
             /\ pltChainId' = call.initialChainId
             /\ pltError' = Some(IF outcome.thrown.isError THEN outcome.thrown.message
                                 ELSE "No se pudo conectar al RPC.")
             /\ call.client # None => Get(call.client) \in pltClosed'
             /\ pltClient # None => Get(pltClient) \in pltClosed']_vars

C19_Witness ==
    /\ pltError = Some("boom")
    /\ pltClient = None
    /\ pltCalls = {}
    /\ pltMade = 2
    /\ pltClosed = {1, 2}
    /\ pltChainId = Some("plt-test0")

\* the error that corresponds to an address and a client, if any: the
\* address is empty, or does not start with the prefix and '1', or there is
\* no client
ExpectedFetchError(address, hasClient) ==
    IF Trim(address) = <<>> THEN Some(ErrorRequired)
    ELSE IF Len(Trim(address)) < 4 \/ SubSeq(Trim(address), 1, 4) # <<112, 108, 116, 49>>
    THEN Some(ErrorPrefix)
    ELSE IF ~hasClient THEN Some(ErrorNoClient)
    ELSE None

\* C20: fetchBalances with an empty address, an address without the 'plt1'
\* prefix, or no client sets the corresponding error, empties the balances
\* and makes no client.getAllBalances call
C20_InvalidFetchIsRejected ==
    [][\A address \in BalanceAddresses :
          fetchFor(address) /\ ExpectedFetchError(address, balClient) # None =>
             /\ balError' = ExpectedFetchError(address, balClient)
             /\ balances' = <<>>
             /\ getAllCalls' = getAllCalls
             /\ fetches' = fetches]_vars

C20_Witness ==
    /\ balError = Some(ErrorPrefix)
    /\ balances = <<>>
    /\ balClient
    /\ getAllCalls = 1
    /\ fetches = <<>>
    /\ ~loading

\* the list is in non-descending order of denom
SortedByDenom(list) ==
    \A i \in 1..(Len(list) - 1) : ~DenomBefore(list[i + 1].denom, list[i].denom)

\* the two lists hold the same coins, each as many times
SameCoins(a, b) ==
    \A coin \in Range(a) \cup Range(b) :
        Cardinality({i \in 1..Len(a) : a[i] = coin}) = Cardinality({i \in 1..Len(b) : b[i] = coin})

\* C21: after a fetchBalances whose query resolves, balances is the returned
\* coin list sorted by denom, error is null and the stored last address is the
\* trimmed address queried; a query that rejects yields empty balances with
\* the failure message as error and leaves the stored last address unchanged.
C21_FetchOutcome ==
    [][\A call \in 1..Len(fetches), ok \in BOOLEAN, coins \in CoinLists, thrown \in ThrownValues :
          fetchEnds(call, ok, coins, thrown) =>
             IF ok
             THEN /\ SortedByDenom(balances') /\ SameCoins(balances', coins)
                  /\ balError' = None
                  /\ getStoredAddress' = fetches[call]
             ELSE /\ balances' = <<>>
                  /\ balError' = Some(fetchErrorMessage(thrown))
                  /\ lastAddress' = lastAddress]_vars

\* the text is `whole` digits, a dot and `decimals` digits, and reads as
\* value / 10^decimals with no superfluous leading zero
WrittenAs(text, value, decimals) ==
    LET whole == Len(text) - decimals - 1
        integerPart == SubSeq(text, 1, whole)
        fractionalPart == SubSeq(text, whole + 2, Len(text))
    IN /\ whole >= 1
       /\ text[whole + 1] = DOT
       /\ \A i \in 1..Len(text) : i # whole + 1 => IsDigit(text[i])
       /\ Len(fractionalPart) = decimals
       /\ whole = 1 \/ integerPart[1] # ZERO
       /\ DigitsValue(integerPart) * Pow10(decimals) + DigitsValue(fractionalPart) = value

\* C22: formatAmount(amount, decimals), for a digit string with an optional
\* leading '-' and decimals > 0, returns amount / 10^decimals written with
\* exactly `decimals` fractional digits, no superfluous leading zeros in the
\* integer part and the sign preserved; it returns '0' for the empty string
\* and the input unchanged when decimals <= 0.
C22_FormatAmount ==
    IsSome(formatCall) =>
        LET amount == Get(formatCall).amount
            decimals == Get(formatCall).decimals
            negative == Len(amount) > 0 /\ amount[1] = MINUS
            digits == IF negative THEN Tail(amount) ELSE amount
        IN IF amount = <<>> THEN formatted = <<ZERO>>
           ELSE IF decimals <= 0 THEN formatted = amount
           ELSE /\ Len(formatted) > 0
                /\ (formatted[1] = MINUS) <=> negative
                /\ WrittenAs(IF negative THEN Tail(formatted) ELSE formatted,
                             DigitsValue(digits), decimals)

\* '42' was formatted with 6 decimals: fewer digits than decimals
C22_Witness ==
    /\ formatCall = Some([amount |-> <<52, 50>>, decimals |-> 6])
    /\ formatted = <<48, 46, 48, 48, 48, 48, 52, 50>>

\* C26: in the usePlt hook isConnected is true only while client is non-null,
\* in every state reachable by overlapping connect() and disconnect() calls.
C26_ConnectedHasClient == pltIsConnected => pltClient # None

\* the client.sendTokens calls made by the form, mounted now or before, that
\* have not settled
SendsInFlight ==
    (IF IsSome(inFlight) /\ Get(inFlight).phase = "sendTokens" THEN 1 ELSE 0)
    + orphaned.sendTokens

\* C24: at most one sendTokens call is in flight at any time, for any sequence
\* of prepare, confirm, cancel, reset and send-dialog close/reopen actions.
C24_AtMostOneSend == SendsInFlight <= 1

\* C23: whenever a wallet is active, the balance held by the App is the amount
\* most recently fetched for the address of that wallet.
C23_BalanceOfActive ==
    session.activeWallet # None =>
        Some(session.balance) = session.walletBalances[Get(session.activeWallet).address]

\* the activateWallet calls that have started and not returned
ActivationsInFlight ==
    {call \in sessionCalls :
        call.op \in {"import", "unlock", "use", "switch"} /\ call.awaits \in {"disconnect", "network"}}

\* C25: isWalletActivationPending is true whenever an activation is in flight,
\* so canSend is false for the whole duration of every activation.
C25_PendingWhileActivating ==
    ActivationsInFlight # {} => session.isWalletActivationPending /\ ~canSend

\* C27: whenever the App holds a signing client and an active wallet, the
\* signing client was created with the signer of the active wallet.
C27_ClientSignsForActive ==
    session.signingClient # None /\ session.activeWallet # None =>
        sessionClients[Get(session.signingClient)].signer = Some(Get(session.activeWallet).address)

\* a second wallet was activated in the session and both are held
C27_Witness ==
    /\ session.signingClient # None
    /\ session.activeWallet # None
    /\ Len(session.wallets) = 2
    /\ Len(SelectSeq(sessionClients, LAMBDA made : made.kind = "signing" /\ ~made.closed)) >= 1
    /\ Len(SelectSeq(sessionClients, LAMBDA made : made.kind = "signing")) >= 2

\* the clients that were obtained, are not held in state and were not disconnected
LeakedClients ==
    {i \in DOMAIN sessionClients :
        /\ ~sessionClients[i].closed
        /\ session.queryClient # Some(i)
        /\ session.signingClient # Some(i)}

\* C28: once every handler call has settled, every client the App opened is
\* the one held in state or has been disconnected.
C28_NoClientLeftOpen == sessionCalls = {} => LeakedClients = {}

\* C29: the signing client held is connected to the same RPC address, and was
\* verified against the same expected chain id, as the query client held.
C29_SameNodeAsQueryClient ==
    session.signingClient # None /\ session.queryClient # None =>
        /\ sessionClients[Get(session.signingClient)].rpc = sessionClients[Get(session.queryClient)].rpc
        /\ sessionClients[Get(session.signingClient)].chainId = sessionClients[Get(session.queryClient)].chainId

\* every handler call has returned and an activation of the session has failed
\* after its client was created
ActivationFailed ==
    /\ sessionCalls = {}
    /\ \E i \in DOMAIN sessionClients :
            sessionClients[i].kind = "signing" /\ sessionClients[i].closed
    /\ session.signingClient = None

\* C30: every import, unlock, activation, send and balance fetch that was started
\* eventually has its busy flag cleared, given that its awaited calls settle.
C30_BusyFlagsClear ==
    /\ session.isImporting ~> ~session.isImporting
    /\ session.isUnlocking ~> ~session.isUnlocking
    /\ session.isWalletActivationPending ~> ~session.isWalletActivationPending
    /\ isSending ~> ~isSending
    /\ loading ~> ~loading

\* an activation has failed, a wallet was unlocked or imported before or not,
\* and the three flags of the App are clear
C30_Witness ==
    /\ ActivationFailed
    /\ ~session.isImporting /\ ~session.isUnlocking /\ ~session.isWalletActivationPending

====
